---- MODULE Spec2Model ----
(***************************************************************************)
(* Model of the Epic Games Claimer core: the Session validity predicates   *)
(* (src/src/session_store.py), the claim orchestrator                      *)
(* (src/src/claimer.py) and claim_game with the browser checkout state     *)
(* machine and the ownership verification (src/src/api.py).                *)
(*                                                                         *)
(* Time is counted in minutes.  A timestamp string is modelled by what     *)
(* datetime.fromisoformat makes of it: empty, unparseable (ValueError),    *)
(* a naive datetime (no UTC offset), or an aware instant.                  *)
(***************************************************************************)
EXTENDS Integers, Sequences, FiniteSets, TLC

VARIABLES
    pc,            \* position of the run: claim_all_games and what it calls
    config,        \* the Config object handed to EpicGamesClaimer
    session,       \* EpicGamesClaimer.session
    now,           \* datetime.now(timezone.utc), in minutes
    store,         \* content of the session file (SessionStore)
    saveCount,     \* number of SessionStore.save invocations
    entitlements,  \* the account's entitlements at the entitlement service
    claimable,     \* the list get_claimable_games returned
    idx,           \* index in claimable of the offer being processed
    result,        \* the ClaimResult being built
    entry,         \* what claim_all_games saw on entry (session usable, discovery)
    cur,           \* per-offer record of the claim_game call in progress
    prev,          \* summary of the previously processed offer
    sm,            \* locals of _claim_via_playwright: loop counter, original_url
    browser,       \* BrowserManager: "none", "open" or "closed"
    fnIn,          \* argument of a pure function under check
    fnOut,         \* its return value
    running        \* Scheduler._running, the shutdown flag (FALSE once set)

vars == <<pc, config, session, now, store, saveCount, entitlements, claimable,
          idx, result, entry, cur, prev, sm, browser, fnIn, fnOut,
                   running>>

runVars == <<pc, config, session, now, store, saveCount, entitlements, claimable,
             idx, result, entry, cur, prev, sm, browser, running>>

-----------------------------------------------------------------------------
(* Bounds of the model *)

\* latest instant (minutes) of a timestamp or of the clock in SpecSession
MaxT == 7
\* longest list of free games discovery returns
MaxGames == 2

(* Program constants *)

\* timedelta(minutes=5): the buffer before expiration in Session.is_valid
BufferMin == 5
\* range(1, 11): ownership verification attempts in claim_game
VerifyAttempts == 10
\* token_data.get("expires_in", 7200) seconds, in minutes
ExpiresInDefault == 120
\* token_data.get("refresh_expires", 28800) seconds, in minutes
RefreshExpiresDefault == 480

-----------------------------------------------------------------------------
(* ClaimStatus, src/src/models.py *)

CLAIMED == "claimed"
ALREADY_OWNED == "already_owned"
FAILED == "failed"
RATE_LIMITED == "rate_limited"
ClaimStatus == {CLAIMED, ALREADY_OWNED, FAILED, RATE_LIMITED}

-----------------------------------------------------------------------------
(* Session, src/src/session_store.py *)

EmptyStamp == [kind |-> "empty", t |-> 0]
BadStamp == [kind |-> "bad", t |-> 0]
Aware(n) == [kind |-> "aware", t |-> n]
Naive(n) == [kind |-> "naive", t |-> n]

\* the timestamp strings a Session may carry
Stamps == {EmptyStamp, BadStamp} \cup {Aware(n) : n \in 0..MaxT}
            \cup {Naive(n) : n \in 0..MaxT}

\* datetime.fromisoformat(s.replace('Z', '+00:00')): raises ValueError on a
\* string that is no ISO timestamp, yields a naive datetime when the string
\* has no UTC offset and an aware one otherwise.
FromIsoformat(stamp) ==
    IF stamp.kind = "bad" THEN [raised |-> "ValueError", tz |-> FALSE, t |-> 0]
    ELSE [raised |-> "", tz |-> (stamp.kind = "aware"), t |-> stamp.t]

\* datetime.now(timezone.utc) < limit: comparing the aware now with a naive
\* datetime raises TypeError.
NowBefore(n, parsed, delta) ==
    IF ~parsed.tz THEN [raised |-> "TypeError", value |-> FALSE]
    ELSE [raised |-> "", value |-> (n < parsed.t - delta)]

IsValid_noBuffer(s, n) ==
    IF s.access_token = "" \/ s.expires_at.kind = "empty" THEN FALSE
    ELSE LET expires == FromIsoformat(s.expires_at) IN
         IF expires.raised # "" THEN FALSE
         ELSE LET cmp == NowBefore(n, expires, 0) IN
              IF cmp.raised # "" THEN FALSE ELSE cmp.value

\* Session.is_valid
IsValid(s, n) ==
    IF s.access_token = "" \/ s.expires_at.kind = "empty" THEN FALSE
    ELSE LET expires == FromIsoformat(s.expires_at) IN
         IF expires.raised # "" THEN FALSE
         ELSE LET cmp == NowBefore(n, expires, BufferMin) IN
              IF cmp.raised # "" THEN FALSE ELSE cmp.value

CanRefresh_inclusive(s, n) ==
    IF s.refresh_token = "" \/ s.refresh_expires_at.kind = "empty" THEN FALSE
    ELSE LET expires == FromIsoformat(s.refresh_expires_at) IN
         IF expires.raised # "" THEN FALSE
         ELSE LET cmp == NowBefore(n, expires, -1) IN
              IF cmp.raised # "" THEN FALSE ELSE cmp.value

\* Session.can_refresh
CanRefresh(s, n) ==
    IF s.refresh_token = "" \/ s.refresh_expires_at.kind = "empty" THEN FALSE
    ELSE LET expires == FromIsoformat(s.refresh_expires_at) IN
         IF expires.raised # "" THEN FALSE
         ELSE LET cmp == NowBefore(n, expires, 0) IN
              IF cmp.raised # "" THEN FALSE ELSE cmp.value

\* a Session object; present = FALSE stands for None
MkSession(at, rt, acc, exp, rexp) ==
    [present |-> TRUE, access_token |-> at, refresh_token |-> rt,
     account_id |-> acc, expires_at |-> exp, refresh_expires_at |-> rexp]

NoSession ==
    [present |-> FALSE, access_token |-> "", refresh_token |-> "",
     account_id |-> "", expires_at |-> EmptyStamp, refresh_expires_at |-> EmptyStamp]

-----------------------------------------------------------------------------
(* The claimer's collaborators: configuration, discovery, entitlements *)

\* The Config object.  src/src/config.py declares none of low_cpu_mode,
\* low_cpu_sleep_ms, captcha_timeout and debug_dir, which claimer.py and api.py
\* read; `complete` tells whether the object handed to the claimer has them.
Configs ==
    [complete : BOOLEAN, use_external_freebies : {TRUE}]

\* game dictionaries as discovery builds them (title, id, namespace, slug)
G1 == [title |-> "A", id |-> "id1", namespace |-> "ns1", slug |-> "a"]
G2 == [title |-> "B", id |-> "id2", namespace |-> "ns2", slug |-> ""]
Games == {G1, G2}

RECURSIVE SeqsUpTo(_, _)
SeqsUpTo(S, n) ==
    IF n = 0 THEN {<<>>}
    ELSE LET shorter == SeqsUpTo(S, n - 1) IN
         shorter \cup {Append(q, x) : q \in shorter, x \in S}

\* what get_free_games / get_external_freebies may return: discovery does not
\* de-duplicate, so a list may name a game twice
GameLists == SeqsUpTo(Games, MaxGames)

\* entitlement objects of the entitlement service (catalogItemId, namespace)
E1 == [catalogItemId |-> "c1", namespace |-> "ns1"]
E2 == [catalogItemId |-> "id2", namespace |-> "ns9"]
\* the entitlement the account gets when the order of `game` is fulfilled
GrantOf(game) == [catalogItemId |-> "c_new", namespace |-> game.namespace]

NoOwned == [ids |-> {}, namespaces |-> {}]

GetOwnedGames_listsDespiteError(ents, requestOk) ==
    [ids |-> {e.catalogItemId : e \in ents} \ {""},
     namespaces |-> {e.namespace : e \in ents} \ {""}]

\* EpicAPI.get_owned_games: the ids and namespaces of the listing, empty
\* strings skipped; both sets empty when the request fails
GetOwnedGames(ents, requestOk) ==
    IF ~requestOk THEN NoOwned
    ELSE [ids |-> {e.catalogItemId : e \in ents} \ {""},
          namespaces |-> {e.namespace : e \in ents} \ {""}]

IsOwned_byId(game, owned) == game.id \in owned.ids

\* get_claimable_games: `game["namespace"] in owned["namespaces"]`
IsOwned(game, owned) == game.namespace \in owned.namespaces

RECURSIVE FilterClaimable(_, _)
\* get_claimable_games: the loop that keeps the games not owned, in order
FilterClaimable(games, owned) ==
    IF games = <<>> THEN <<>>
    ELSE LET rest == FilterClaimable(Tail(games), owned) IN
         IF IsOwned(Head(games), owned) THEN rest ELSE <<Head(games)>> \o rest

\* OAuth token responses of EpicAPI.refresh_token (None when the request fails)
TokenResponses ==
    {[access_token |-> "tokB", refresh_token |-> "refB", account_id |-> "acc",
      expires_in |-> ExpiresInDefault, refresh_expires |-> RefreshExpiresDefault]}

\* EpicGamesClaimer._update_session
UpdateSession(token_data, n) ==
    MkSession(token_data.access_token, token_data.refresh_token,
              token_data.account_id, Aware(n + token_data.expires_in),
              Aware(n + token_data.refresh_expires))

\* sessions the claimer may hold when claim_all_games is entered: a valid one
\* whose refresh token expires soon, one inside the 5-minute buffer, and the
\* refresh-token-only session authenticate() adopts after an interactive login
SessValid == MkSession("tokA", "refA", "acc", Aware(60), Aware(1))
SessExpiring == MkSession("tokA", "refA", "acc", Aware(4), Aware(400))
SessRefreshOnly == MkSession("", "refA", "", EmptyStamp, Aware(400))
EntrySessions == {NoSession, SessValid, SessExpiring, SessRefreshOnly}

NoResult == [claimed |-> 0, failed |-> 0, already_owned |-> 0, games_processed |-> <<>>]

-----------------------------------------------------------------------------
(* What the browser shows: URLs and visible text, by the features the code
   tests.  A text is the set of the pattern families matching it. *)

\* URLs by the substrings the code looks for: "login"; "receipt" or
\* "confirmation"; "#/purchase/success"; "purchase/success" without "#/"
Urls == {"product", "login", "receipt", "hash_success", "path_success", "other"}

\* RATE_LIMIT_PATTERNS, SUCCESS_PATTERNS, ALREADY_OWNED_PATTERNS, the marker
\* "invalid_offers_code_redemption_only", the strong CAPTCHA keywords and the
\* keyword "hcaptcha" that only CAPTCHA_KEYWORDS holds
Signals == {"rate", "success", "owned", "code", "captcha", "hcaptcha"}

\* "login" in url.lower()
UrlHasLogin(u) == u = "login"

\* _check_page_result: "receipt", "confirmation" or "#/purchase/success" in url
UrlSuccessFinal(u) == u \in {"receipt", "hash_success"}

\* checkout polling: any of ("receipt", "confirmation", "purchase/success") in url
UrlSuccessPoll(u) == u \in {"receipt", "hash_success", "path_success"}

CheckPageResult_ownedFirst(url, text) ==
    IF "rate" \in text THEN RATE_LIMITED
    ELSE IF UrlSuccessFinal(url) THEN CLAIMED
    ELSE IF "owned" \in text THEN ALREADY_OWNED
    ELSE IF "success" \in text THEN CLAIMED
    ELSE FAILED

CheckPageResult_optimistic(url, text) ==
    IF "rate" \in text THEN RATE_LIMITED
    ELSE IF UrlSuccessFinal(url) \/ "success" \in text THEN CLAIMED
    ELSE IF "owned" \in text THEN ALREADY_OWNED
    ELSE IF "code" \in text THEN FAILED
    ELSE CLAIMED

\* EpicAPI._check_page_result
CheckPageResult(url, text) ==
    IF "rate" \in text THEN RATE_LIMITED
    ELSE IF UrlSuccessFinal(url) THEN CLAIMED
    ELSE LET has_success == "success" \in text
             has_already_owned == "owned" \in text IN
         IF has_success /\ has_already_owned THEN CLAIMED
         ELSE IF has_success THEN CLAIMED
         ELSE IF has_already_owned THEN ALREADY_OWNED
         ELSE IF "code" \in text THEN FAILED
         ELSE FAILED

OpenPageResult_ownedBeforeCode(url, text) ==
    IF UrlHasLogin(url) THEN FAILED
    ELSE IF "owned" \in text THEN ALREADY_OWNED
    ELSE IF "code" \in text THEN FAILED
    ELSE "continue"

OpenPageResult_noOwnedCheck(url, text) ==
    IF UrlHasLogin(url) THEN FAILED
    ELSE IF "code" \in text THEN FAILED
    ELSE "continue"

\* _claim_via_playwright, right after the product page is opened: login
\* redirect, code-redemption-only marker, already-owned text
OpenPageResult(url, text) ==
    IF UrlHasLogin(url) THEN FAILED
    ELSE IF "code" \in text THEN FAILED
    ELSE IF "owned" \in text THEN ALREADY_OWNED
    ELSE "continue"

PollResult_successFirst(url, text, original_url) ==
    IF UrlSuccessPoll(url) \/ (url # original_url /\ "success" \in text)
    THEN CLAIMED
    ELSE IF "owned" \in text THEN ALREADY_OWNED
    ELSE IF UrlHasLogin(url) THEN "login_wait"
    ELSE "continue"

\* _claim_via_playwright, one iteration of the checkout polling loop in which
\* no checkout control is visible
PollResult(url, text, original_url) ==
    IF "owned" \in text THEN ALREADY_OWNED
    ELSE IF UrlSuccessPoll(url) \/ (url # original_url /\ "success" \in text)
         THEN CLAIMED
    ELSE IF UrlHasLogin(url) THEN "login_wait"
    ELSE "continue"

\* the same on the direct purchase page
FallbackPollResult(text) ==
    IF "owned" \in text THEN ALREADY_OWNED
    ELSE IF "success" \in text THEN CLAIMED
    ELSE "continue"

UnresolvedResult_alwaysRateLimited(rateText) == RATE_LIMITED

\* _claim_via_playwright when _wait_for_captcha_resolution returned False: the
\* text is read again; RATE_LIMITED with a rate-limit pattern in it, else FAILED
UnresolvedResult(rateText) == IF rateText THEN RATE_LIMITED ELSE FAILED

\* _has_captcha: a visible challenge frame, or a strong keyword in the text
HasCaptcha(frameVisible, text) == frameVisible \/ "captcha" \in text

\* _wait_for_captcha_resolution, one poll: response token, hidden challenge
\* frame, no CAPTCHA_KEYWORDS in the text; then the rate-limit patterns
CaptchaPoll(tokenSet, frameHidden, text) ==
    IF tokenSet THEN "resolved"
    ELSE IF frameHidden THEN "resolved"
    ELSE IF text \cap {"captcha", "hcaptcha"} = {} THEN "resolved"
    ELSE IF "rate" \in text THEN "blocked"
    ELSE "wait"

NeedsVerify_alsoOwned(status) == status \in {CLAIMED, ALREADY_OWNED}

\* claim_game: `if status == ClaimStatus.CLAIMED` starts the verification
NeedsVerify(status) == status = CLAIMED

VerifyMatch_always(namespace, owned) == TRUE

VerifyMatch_never(namespace, owned) == FALSE

\* claim_game: `namespace in owned["namespaces"]`
VerifyMatch(namespace, owned) == namespace \in owned.namespaces

VerifyExhausted_oneMore(attempt) == attempt = VerifyAttempts + 1

\* claim_game: `for attempt in range(1, 11)` ends after the tenth attempt
VerifyExhausted(attempt) == attempt = VerifyAttempts

-----------------------------------------------------------------------------
(* Per-offer records *)

NoOpen == [seen |-> FALSE, login |-> FALSE, code |-> FALSE, owned |-> FALSE, opened |-> "none"]

\* the claim_game call for claimable[i]: its arguments, what the account
\* owned when it started, and what it has seen and decided so far
NewCur(i, game, token, saves, ownedAtStart, flag) ==
    [index |-> i, game |-> game, token |-> token, savesAtStart |-> saves,
     ownedAtStart |-> ownedAtStart, runningAtStart |-> flag,
     clicked |-> FALSE, open |-> NoOpen, check |-> "none",
     rateSeen |-> FALSE, crashed |-> FALSE,
     smResult |-> "none", queries |-> 0, listed |-> FALSE, raised |-> FALSE,
     status |-> "none"]

\* an exception was raised inside the browser flow (ImportError included)
Crashed(c) == [c EXCEPT !.crashed = TRUE]

\* the invocation read a page text; rateSeen remembers whether any text read
\* so far matched RATE_LIMIT_PATTERNS
Seen(c, text) == [c EXCEPT !.rateSeen = c.rateSeen \/ "rate" \in text]

NoCur == NewCur(0, G1, "", 0, FALSE, TRUE)

\* the product page opened without login redirect and without the
\* code-redemption marker, and showed already-owned text
OwnedPage(open) == open.seen /\ open.owned /\ ~open.login /\ ~open.code

NoPrev == [index |-> 0, status |-> "none", ownedPage |-> FALSE,
           refreshed |-> "none", token |-> "", savedToken |-> "",
           savesBefore |-> 0, savesAfter |-> 0]

NoEntry == [entered |-> FALSE, usable |-> FALSE, owned |-> NoOwned]

NoSm == [retry |-> 0, original_url |-> "product"]

-----------------------------------------------------------------------------
(* claim_all_games, src/src/claimer.py *)

AbortsQueue_never(status) == FALSE

AbortsQueue_onFailed(status) == status \in {RATE_LIMITED, FAILED}

\* claim_all_games: the `break` of the RATE_LIMITED branch
AbortsQueue(status) == status = RATE_LIMITED

Tally_rateLimitedUncounted(r, status) ==
    IF status = CLAIMED THEN [r EXCEPT !.claimed = r.claimed + 1]
    ELSE IF status = ALREADY_OWNED
        THEN [r EXCEPT !.already_owned = r.already_owned + 1]
    ELSE IF status = RATE_LIMITED THEN r
    ELSE [r EXCEPT !.failed = r.failed + 1]

\* claim_all_games: the counter the status returned by claim_game increments
Tally(r, status) ==
    IF status = CLAIMED THEN [r EXCEPT !.claimed = r.claimed + 1]
    ELSE IF status = ALREADY_OWNED
        THEN [r EXCEPT !.already_owned = r.already_owned + 1]
    ELSE IF status = RATE_LIMITED THEN [r EXCEPT !.failed = r.failed + 1]
    ELSE [r EXCEPT !.failed = r.failed + 1]

RefreshWanted_afterAnyOutcome(status, s, n) == CanRefresh(s, n)

\* claim_all_games: the else branch tries a refresh when can_refresh()
RefreshWanted(status, s, n) ==
    /\ status \notin {CLAIMED, ALREADY_OWNED, RATE_LIMITED}
    /\ CanRefresh(s, n)

SavesOnRefresh_always(refreshed) == 1

\* claim_all_games: session_store.save(self.session) follows _update_session,
\* and nothing else in the loop saves
SavesOnRefresh(refreshed) == IF refreshed THEN 1 ELSE 0

SessionToSave_stale(old, new) == old

\* claim_all_games: the session handed to save is the updated self.session
SessionToSave(old, new) == new

\* a session file that open(..., 'w') has truncated and json.dump has not
\* completed: empty, or the beginning of a JSON document
PartialFile == [NoSession EXCEPT !.account_id = "partial"]

\* how a SessionStore.save can end: written; an exception before the file was
\* opened (mkdir, open); an exception or the end of the process after open()
\* truncated the file and before json.dump completed
SaveOutcomes == {"ok", "unwritten", "partial"}

\* the file after SessionStore.save(s)
Saved(s, file, outcome) ==
    IF outcome = "ok" THEN s
    ELSE IF outcome = "unwritten" THEN file
    ELSE PartialFile

\* SessionStore.load: None when the file is missing or json.load fails
Load(file) == IF file = PartialFile THEN NoSession ELSE file

NoToken == [ok |-> FALSE, access_token |-> "", refresh_token |-> "",
            account_id |-> "", expires_in |-> 0, refresh_expires |-> 0]

\* what EpicAPI.refresh_token returns: None, or the token response
RefreshReplies ==
    {NoToken} \cup
    {[ok |-> TRUE, access_token |-> t.access_token, refresh_token |-> t.refresh_token,
      account_id |-> t.account_id, expires_in |-> t.expires_in,
      refresh_expires |-> t.refresh_expires] : t \in TokenResponses}

Init ==
    /\ pc = "entry"
    /\ config \in Configs
    /\ session \in EntrySessions
    /\ now = 0
    /\ store = session
    /\ saveCount = 0
    /\ entitlements \in {{}, {E1, E2}}
    /\ claimable = <<>>
    /\ idx = 0
    /\ result = NoResult
    /\ entry = NoEntry
    /\ cur = NoCur
    /\ prev = NoPrev
    /\ sm = NoSm
    /\ browser = "none"
    /\ running = TRUE
    /\ fnIn = [s |-> NoSession, n |-> 0]
    /\ fnOut = [fn |-> "none", value |-> FALSE]

\* claim_all_games up to the claim loop, get_claimable_games included
Start ==
    /\ pc = "entry"
    /\ UNCHANGED <<config, session, now, store, saveCount, entitlements, result,
                   cur, prev, sm, browser, fnIn, fnOut,
                   running>>
    /\ IF ~session.present
       THEN /\ pc' = "done"
            /\ entry' = [entered |-> TRUE, usable |-> FALSE, owned |-> NoOwned]
            /\ UNCHANGED <<claimable, idx>>
       ELSE \E fg \in GameLists, ext \in GameLists, ownedOk \in BOOLEAN :
            LET usable == IsValid(session, now)
                free == IF config.use_external_freebies /\ ext # <<>> /\ fg = <<>>
                        THEN ext ELSE fg
                owned == GetOwnedGames(entitlements, ownedOk)
                kept == FilterClaimable(free, owned) IN
            IF ~config.complete
            THEN \* self.config.low_cpu_mode raises AttributeError
                 /\ pc' = "raised"
                 /\ entry' = [entered |-> TRUE, usable |-> usable, owned |-> NoOwned]
                 /\ UNCHANGED <<claimable, idx>>
            ELSE IF free = <<>>
            THEN /\ pc' = "done"
                 /\ entry' = [entered |-> TRUE, usable |-> usable, owned |-> NoOwned]
                 /\ UNCHANGED <<claimable, idx>>
            ELSE /\ entry' = [entered |-> TRUE, usable |-> usable, owned |-> owned]
                 /\ claimable' = kept
                 /\ IF kept = <<>>
                    THEN pc' = "done" /\ UNCHANGED idx
                    ELSE pc' = "loop" /\ idx' = 1

\* the head of the claim loop: claim_game is called for claimable[idx]
ClaimGame ==
    /\ pc = "loop"
    /\ LET game == claimable[idx] IN
       /\ result' = [result EXCEPT
                        !.games_processed = Append(result.games_processed, game.title)]
       /\ cur' = NewCur(idx, game, session.access_token, saveCount,
                        game.namespace \in {e.namespace : e \in entitlements},
                        running)
    /\ pc' = "sm_start"
    /\ sm' = NoSm
    /\ UNCHANGED <<config, session, now, store, saveCount, entitlements, claimable,
                   idx, entry, prev, browser, fnIn, fnOut,
                   running>>

-----------------------------------------------------------------------------
(* claim_game and _claim_via_playwright, src/src/api.py *)

\* for retry in range(10): the checkout polling loop
CheckoutRetries == 10
\* for retry2 in range(8): the polling loop on the direct purchase page
FallbackRetries == 8
\* click, click(force=True), evaluate("el => el.click()"), dispatch_event
ClickStrategies == 4
\* bound of the model: polls of _wait_for_captcha_resolution that fit into
\* config.captcha_timeout
MaxCaptchaPolls == 2

\* the URLs the pages classified by _check_page_result are drawn from
ResultUrls == {"product", "receipt", "path_success"}

\* positions of the browser flow at which a browser may be open
BrowserPcs == {"sm_open", "sm_button", "sm_checkout", "sm_fallback",
               "sm_fallback_poll", "sm_submit", "sm_captcha", "sm_post_captcha",
               "sm_final"}

\* positions inside one call of _claim_via_playwright
InvocationPcs == BrowserPcs \cup {"sm_start"}

smFrame_sessionCleared ==
    /\ session' = NoSession
    /\ UNCHANGED <<config, now, store, saveCount, entitlements, claimable, idx,
                   result, entry, prev, fnIn, fnOut, running>>

\* what no step of claim_game touches
smFrame ==
    UNCHANGED <<config, session, now, store, saveCount, entitlements, claimable,
                idx, result, entry, prev, fnIn, fnOut, running>>

CloseBrowser_skipped(b) == b

SmReturn_never(c, r) == UNCHANGED vars

\* BrowserManager.close: context, browser, Chrome process and temporary
\* profile are released (each failure swallowed) and every field is reset
CloseBrowser(b) == "closed"

\* _claim_via_playwright returns r (finally: browser_mgr.close()) and
\* claim_game goes on: to the verification after CLAIMED, else it returns r
SmReturn(c, r) ==
    /\ cur' = [c EXCEPT !.smResult = r,
                        !.status = IF NeedsVerify(r) THEN "none" ELSE r]
    /\ pc' = IF NeedsVerify(r) THEN "verify" ELSE "outcome"
    /\ browser' = CloseBrowser(browser)
    /\ sm' = NoSm

\* import playwright, get_page, goto the store root, wait for a manual login
SmLaunch ==
    /\ pc = "sm_start"
    /\ smFrame
    /\ \E importOk, crash, storeLogin, loginDone \in BOOLEAN :
       IF ~importOk
       THEN \* ImportError: FAILED before a BrowserManager exists
            /\ cur' = [Crashed(cur) EXCEPT !.smResult = FAILED, !.status = FAILED]
            /\ pc' = "outcome"
            /\ UNCHANGED <<browser, sm>>
       ELSE IF crash THEN SmReturn(Crashed(cur), FAILED)
       ELSE IF storeLogin /\ ~loginDone THEN SmReturn(cur, FAILED)
       ELSE /\ pc' = "sm_open"
            /\ browser' = "open"
            /\ UNCHANGED <<cur, sm>>

\* goto the product page and look at it once
SmOpen ==
    /\ pc = "sm_open"
    /\ smFrame
    /\ \E crash \in BOOLEAN, url \in Urls, text \in SUBSET {"code", "owned", "rate"} :
       LET r == OpenPageResult(url, text)
           \* the text is read only when the URL is no login redirect
           read == IF UrlHasLogin(url) THEN cur ELSE Seen(cur, text)
           c == [read EXCEPT !.open = [seen |-> TRUE, login |-> UrlHasLogin(url),
                                       code |-> "code" \in text,
                                       owned |-> "owned" \in text, opened |-> r]] IN
       IF crash THEN SmReturn(Crashed(cur), FAILED)
       ELSE IF r # "continue" THEN SmReturn(c, r)
       ELSE /\ cur' = c
            /\ pc' = "sm_button"
            /\ UNCHANGED <<browser, sm>>

\* Step 1 once _find_button has answered: without a button FAILED, else the
\* click with the escalating strategies (strategy 0: all of them failed)
ButtonStep(found) ==
    \E crash \in BOOLEAN, strategy \in 0..ClickStrategies,
       u \in {"product", "other"} :
       IF crash THEN SmReturn(Crashed(cur), FAILED)
       ELSE IF ~found \/ strategy = 0 THEN SmReturn(cur, FAILED)
       ELSE /\ cur' = [cur EXCEPT !.clicked = TRUE]
            /\ sm' = [retry |-> 0, original_url |-> u]
            /\ pc' = "sm_checkout"
            /\ UNCHANGED browser

\* find the claim button and click it
SmButton ==
    /\ pc = "sm_button"
    /\ smFrame
    /\ \E found \in BOOLEAN : ButtonStep(found)

\* the URLs the checkout polling loop may see
PollUrls == {"product", "login", "path_success", "other"}

\* one iteration of the checkout polling loop
SmCheckoutPoll ==
    /\ pc = "sm_checkout"
    /\ smFrame
    /\ \E crash \in BOOLEAN :
       IF crash THEN SmReturn(Crashed(cur), FAILED)
       ELSE \E found \in BOOLEAN :
       IF found
       THEN /\ pc' = "sm_submit"
            /\ sm' = NoSm /\ UNCHANGED <<cur, browser>>
       ELSE \E url \in PollUrls, text \in SUBSET {"owned", "success", "rate"} :
       LET r == PollResult(url, text, sm.original_url)
           c == Seen(cur, text) IN
       IF r \in {ALREADY_OWNED, CLAIMED} THEN SmReturn(c, r)
       ELSE \E loginDone \in (IF r = "login_wait" THEN BOOLEAN ELSE {TRUE}) :
       IF r = "login_wait" /\ ~loginDone THEN SmReturn(c, FAILED)
       ELSE IF sm.retry + 1 = CheckoutRetries
       THEN /\ pc' = "sm_fallback"
            /\ cur' = c
            /\ sm' = NoSm /\ UNCHANGED browser
       ELSE /\ sm' = [sm EXCEPT !.retry = sm.retry + 1]
            /\ cur' = c
            /\ UNCHANGED <<pc, browser>>

\* no checkout control: debug artifact, goto the direct purchase URL
SmFallback ==
    /\ pc = "sm_fallback"
    /\ smFrame
    /\ \E crash, sinkOk \in BOOLEAN :
       IF crash \/ ~sinkOk THEN SmReturn(Crashed(cur), FAILED)
       ELSE /\ pc' = "sm_fallback_poll"
            /\ sm' = [sm EXCEPT !.retry = 0]
            /\ UNCHANGED <<cur, browser>>

\* one iteration of the polling loop on the direct purchase page
SmFallbackPoll ==
    /\ pc = "sm_fallback_poll"
    /\ smFrame
    /\ \E crash \in BOOLEAN :
       IF crash THEN SmReturn(Crashed(cur), FAILED)
       ELSE \E found \in BOOLEAN :
       IF found
       THEN /\ pc' = "sm_submit"
            /\ sm' = NoSm /\ UNCHANGED <<cur, browser>>
       ELSE \E text \in SUBSET {"owned", "success", "rate"} :
       LET r == FallbackPollResult(text)
           c == Seen(cur, text) IN
       IF r # "continue" THEN SmReturn(c, r)
       ELSE IF sm.retry + 1 < FallbackRetries
       THEN /\ sm' = [sm EXCEPT !.retry = sm.retry + 1]
            /\ cur' = c
            /\ UNCHANGED <<pc, browser>>
       ELSE \E sinkOk \in BOOLEAN :
       IF ~sinkOk THEN SmReturn(Crashed(c), FAILED)
       ELSE /\ pc' = "sm_final"
            /\ cur' = c
            /\ sm' = NoSm /\ UNCHANGED browser

\* click the checkout control, classify the page, look for a CAPTCHA
SmSubmit ==
    /\ pc = "sm_submit"
    /\ smFrame
    /\ \E crash \in BOOLEAN :
       IF crash THEN SmReturn(Crashed(cur), FAILED)
       ELSE \E url \in ResultUrls,
               text \in SUBSET {"rate", "success", "owned", "captcha"} :
       LET rec == CheckPageResult(url, text)
           c == [Seen(cur, text) EXCEPT !.check = rec] IN
       IF rec \in {CLAIMED, ALREADY_OWNED}
       THEN \E sinkOk \in BOOLEAN :
            IF sinkOk THEN SmReturn(c, rec) ELSE SmReturn(Crashed(c), FAILED)
       ELSE \E frameVisible \in BOOLEAN :
       IF HasCaptcha(frameVisible, text)
       THEN \E sinkOk \in BOOLEAN :
            IF ~sinkOk THEN SmReturn(Crashed(c), FAILED)
            ELSE /\ pc' = "sm_captcha"
                 /\ sm' = [sm EXCEPT !.retry = 0]
                 /\ cur' = c
                 /\ UNCHANGED browser
       ELSE /\ pc' = "sm_final"
            /\ cur' = c
            /\ UNCHANGED <<browser, sm>>

\* _wait_for_captcha_resolution: one poll, or the timeout; when the wait
\* returns False the text is read again for the rate-limit patterns
SmCaptcha ==
    /\ pc = "sm_captcha"
    /\ smFrame
    /\ \E crash \in BOOLEAN :
       IF crash THEN SmReturn(Crashed(cur), FAILED)
       ELSE \E tokenSet, frameHidden \in
                  (IF sm.retry = MaxCaptchaPolls THEN {FALSE} ELSE BOOLEAN) :
            \E rateAfter \in BOOLEAN,
               text \in (IF sm.retry = MaxCaptchaPolls \/ tokenSet \/ frameHidden
                         THEN {{}} ELSE SUBSET {"captcha", "hcaptcha", "rate"}) :
       LET p == IF sm.retry = MaxCaptchaPolls THEN "timeout"
                ELSE CaptchaPoll(tokenSet, frameHidden, text)
           \* the poll reads the text unless it timed out or an earlier
           \* strategy answered
           c == IF p = "timeout" \/ tokenSet \/ frameHidden THEN cur
                ELSE Seen(cur, text) IN
       IF p = "resolved"
       THEN /\ pc' = "sm_post_captcha"
            /\ cur' = c
            /\ sm' = NoSm /\ UNCHANGED browser
       ELSE IF p = "wait"
       THEN /\ sm' = [sm EXCEPT !.retry = sm.retry + 1]
            /\ cur' = c
            /\ UNCHANGED <<pc, browser>>
       ELSE SmReturn(Seen(c, IF rateAfter THEN {"rate"} ELSE {}),
                     UnresolvedResult(rateAfter))

\* after the CAPTCHA: settle, classify, click the checkout control once more
SmPostCaptcha ==
    /\ pc = "sm_post_captcha"
    /\ smFrame
    /\ \E crash \in BOOLEAN :
       IF crash THEN SmReturn(Crashed(cur), FAILED)
       ELSE \E url \in ResultUrls, text \in SUBSET {"rate", "success", "owned"} :
       LET rec == CheckPageResult(url, text)
           c == [Seen(cur, text) EXCEPT !.check = rec] IN
       IF rec \in {CLAIMED, ALREADY_OWNED}
       THEN \E sinkOk \in BOOLEAN :
            IF sinkOk THEN SmReturn(c, rec) ELSE SmReturn(Crashed(c), FAILED)
       ELSE /\ pc' = "sm_final"
            /\ cur' = c
            /\ UNCHANGED <<browser, sm>>

\* Step 3: debug artifact, then the final _check_page_result
SmFinal ==
    /\ pc = "sm_final"
    /\ smFrame
    /\ \E crash, sinkOk \in BOOLEAN :
       IF crash \/ ~sinkOk THEN SmReturn(Crashed(cur), FAILED)
       ELSE \E url \in ResultUrls, text \in SUBSET {"rate", "success", "owned"} :
            LET rec == CheckPageResult(url, text) IN
            SmReturn([Seen(cur, text) EXCEPT !.check = rec], rec)

\* the entitlement service fulfils the order placed by the browser flow: it
\* may do so at any moment after the claim button was clicked
Fulfil ==
    /\ pc \in {"sm_checkout", "sm_fallback", "sm_fallback_poll", "sm_submit",
               "sm_captcha", "sm_post_captcha", "sm_final", "verify"}
    /\ cur.clicked
    /\ cur.game.namespace \notin {e.namespace : e \in entitlements}
    /\ entitlements' = entitlements \cup {GrantOf(cur.game)}
    /\ UNCHANGED <<pc, config, session, now, store, saveCount, claimable, idx,
                   result, entry, cur, prev, sm, browser, fnIn, fnOut,
                   running>>

\* what a get_owned_games call of the verification loop may meet: a listing,
\* a requests.RequestException (network or HTTP error), any other exception
VerifyReplies == {"ok", "request_error", "exception"}

\* claim_game: one attempt of the verification loop.  get_owned_games turns a
\* failed request into empty sets; any other exception ends claim_game FAILED
VerifyStep(reply) ==
    LET owned == GetOwnedGames(entitlements, reply = "ok")
        n == cur.queries + 1
        c == [cur EXCEPT !.queries = n]
        \* whether a listing queried so far held the namespace
        listed == cur.listed \/ cur.game.namespace \in owned.namespaces IN
    IF reply = "exception"
    THEN /\ cur' = [c EXCEPT !.status = FAILED, !.raised = TRUE]
         /\ pc' = "outcome"
    ELSE IF VerifyMatch(cur.game.namespace, owned)
    THEN /\ cur' = [c EXCEPT !.status = CLAIMED, !.listed = listed]
         /\ pc' = "outcome"
    ELSE IF VerifyExhausted(n)
    THEN /\ cur' = [c EXCEPT !.status = FAILED, !.listed = listed]
         /\ pc' = "outcome"
    ELSE /\ cur' = [c EXCEPT !.listed = listed]
         /\ UNCHANGED pc

VerifyPoll ==
    /\ pc = "verify"
    /\ smFrame
    /\ UNCHANGED <<browser, sm>>
    /\ \E reply \in VerifyReplies : VerifyStep(reply)

\* claim_all_games: the rest of the loop body after claim_game returned:
\* counting, the break on RATE_LIMITED, the token refresh with its save, the
\* sleep between claims
FinishOffer ==
    /\ pc = "outcome"
    /\ \E reply \in (IF RefreshWanted(cur.status, session, now)
                     THEN RefreshReplies ELSE {NoToken}) :
       \E outcome \in (IF reply.ok THEN SaveOutcomes ELSE {"unwritten"}) :
       LET status == cur.status
           tried == RefreshWanted(status, session, now)
           refreshed == tried /\ reply.ok
           updated == UpdateSession(reply, now)
           saves == SavesOnRefresh(refreshed)
           saved == SessionToSave(session, updated)
           last == AbortsQueue(status) \/ idx = Len(claimable) IN
       /\ result' = Tally(result, status)
       /\ session' = IF refreshed THEN updated ELSE session
       /\ saveCount' = saveCount + saves
       /\ store' = IF saves > 0 THEN Saved(saved, store, outcome) ELSE store
       /\ prev' = [index |-> idx, status |-> status,
                   ownedPage |-> cur.ownedAtStart /\ OwnedPage(cur.open),
                   refreshed |-> IF refreshed THEN "ok"
                                 ELSE IF tried THEN "failed" ELSE "no",
                   token |-> IF refreshed THEN reply.access_token ELSE "",
                   savedToken |-> IF saves > 0 THEN saved.access_token ELSE "",
                   savesBefore |-> saveCount,
                   savesAfter |-> saveCount + saves]
       /\ now' = now + 1
       /\ pc' = IF last THEN "done" ELSE "loop"
       /\ idx' = IF last THEN idx ELSE idx + 1
    /\ UNCHANGED <<config, entitlements, claimable, entry, cur, sm, browser,
                   fnIn, fnOut,
                   running>>

Next ==
    \/ Start
    \/ ClaimGame
    \/ SmLaunch
    \/ SmOpen
    \/ SmButton
    \/ SmCheckoutPoll
    \/ SmFallback
    \/ SmFallbackPoll
    \/ SmSubmit
    \/ SmCaptcha
    \/ SmPostCaptcha
    \/ SmFinal
    \/ Fulfil
    \/ VerifyPoll
    \/ FinishOffer

Spec == Init /\ [][Next]_vars

\* The run of a logged-in account with a complete configuration, under the
\* scheduling of the program: claim_all_games is one thread of control, each
\* of its steps is a call with a timeout or a bounded loop iteration, so a step
\* that can be taken is taken.
InitLive ==
    /\ Init
    /\ config.complete
    /\ session = SessValid
    /\ entitlements = {}

SpecLive == InitLive /\ [][Next]_vars /\ WF_vars(Next)

-----------------------------------------------------------------------------
(* EpicGamesClaimer.run: authenticate, then claim_all_games *)

\* a stored session whose token carries no expiration (step 2 verifies it)
SessNoExpiry == MkSession("tokA", "", "acc", EmptyStamp, EmptyStamp)
\* Session.from_eg1_token of a cookie whose JWT has not expired
SessEg1 == MkSession("eg1", "", "acc", Aware(60), EmptyStamp)
\* Session.from_eg1_token of a cookie whose JWT has expired
SessEg1Stale == MkSession("eg1", "", "acc", Aware(0), EmptyStamp)
\* Session(access_token=fallback_eg1, ...) built from verify_token's reply
SessEg1Verified == MkSession("eg1", "", "acc", Aware(60), EmptyStamp)

\* what the session file may hold when a run starts
StoredSessions == {NoSession, SessValid, SessExpiring, SessNoExpiry, PartialFile}

\* the collaborators of authenticate: the replies of verify_token and
\* refresh_token, what the Chrome cookie extraction yields, the .env fallback
\* token and whether it still verifies, the device flow, the interactive login
AuthEnvs ==
    [verify : BOOLEAN, refresh : RefreshReplies,
     chrome : {NoSession, SessEg1, SessRefreshOnly},
     fallback : {NoSession, SessEg1, SessEg1Stale}, fbVerify : BOOLEAN,
     device : RefreshReplies, interactive : {NoSession, SessEg1, SessRefreshOnly},
     save : SaveOutcomes]

\* the result of authenticate: whether it returned True, self.session, how
\* often SessionStore.save was invoked, the file content afterwards, and the
\* steps of authenticate that were entered, in order
AuthResult(ok, s, saves, file, steps) ==
    [ok |-> ok, session |-> s, saves |-> saves, file |-> file, steps |-> steps]

\* the steps of authenticate in the order of the code: the stored session,
\* verify_token on it, refresh_token, the Chrome cookie extraction, the .env
\* token (from_eg1_token, then verify_token on it), the device flow (run when
\* a client secret is configured), the interactive browser login
AuthSteps == <<"load", "verify_token", "refresh_token", "refresh_from_chrome",
               "from_eg1_token", "verify_fallback", "device_auth",
               "interactive_login">>

\* EpicGamesClaimer.authenticate, steps 4 to 7: Chrome cookies, .env
\* fallback, device flow, interactive login
AuthenticateLate(s0, n, env, file0, steps0) ==
    LET \* refresh_from_chrome saves what it extracted and returns it only
        \* when the save succeeded
        extracted == env.chrome.present
        chrome == IF extracted /\ env.save = "ok" THEN env.chrome ELSE NoSession
        saves4 == IF extracted THEN 1 ELSE 0
        file4 == IF extracted THEN Saved(env.chrome, file0, env.save) ELSE file0
        steps4 == Append(steps0, "refresh_from_chrome")
        steps5 == IF env.fallback.present THEN Append(steps4, "from_eg1_token")
                  ELSE steps4
        steps5v == IF env.fallback.present THEN Append(steps5, "verify_fallback")
                   ELSE steps5
        steps6 == Append(steps5v, "device_auth")
        steps7 == Append(steps6, "interactive_login") IN
    IF chrome.present /\ IsValid(chrome, n)
    THEN AuthResult(TRUE, chrome, saves4, file4, steps4)
    ELSE IF env.fallback.present /\ IsValid(env.fallback, n)
    THEN AuthResult(TRUE, env.fallback, saves4 + 1,
                    Saved(env.fallback, file4, env.save), steps5)
    ELSE IF env.fallback.present /\ env.fbVerify
    THEN AuthResult(TRUE, SessEg1Verified, saves4, file4, steps5v)
    ELSE IF env.device.ok
    THEN LET s6 == UpdateSession(env.device, n) IN
         AuthResult(TRUE, s6, saves4 + 1, Saved(s6, file4, env.save), steps6)
    ELSE IF env.interactive.present
    THEN AuthResult(TRUE, env.interactive, saves4 + 1,
                    Saved(env.interactive, file4, env.save), steps7)
    ELSE AuthResult(FALSE, s0, saves4, file4, steps7)

Authenticate_refreshesValid(file0, n, env) ==
    LET s0 == Load(file0) IN
    IF s0.present /\ CanRefresh(s0, n) /\ env.refresh.ok
    THEN LET s3 == UpdateSession(env.refresh, n) IN
         AuthResult(TRUE, s3, 1, Saved(s3, file0, env.save),
                    <<"load", "refresh_token">>)
    ELSE IF s0.present /\ IsValid(s0, n)
    THEN AuthResult(TRUE, s0, 0, file0, <<"load">>)
    ELSE AuthenticateLate(s0, n, env, file0, <<"load">>)

\* EpicGamesClaimer.authenticate: the stored session when valid, else the
\* token verification, else the refresh, else the later steps
Authenticate(file0, n, env) ==
    LET s0 == Load(file0)
        verifies == s0.present /\ s0.access_token # ""
                       /\ s0.expires_at.kind = "empty"
        refreshes == s0.present /\ CanRefresh(s0, n)
        steps2 == IF verifies THEN <<"load", "verify_token">> ELSE <<"load">>
        steps3 == IF refreshes THEN Append(steps2, "refresh_token") ELSE steps2 IN
    IF s0.present /\ IsValid(s0, n) THEN AuthResult(TRUE, s0, 0, file0, <<"load">>)
    ELSE IF verifies /\ env.verify
    THEN LET s2 == [s0 EXCEPT !.expires_at = Aware(60)] IN
         AuthResult(TRUE, s2, 1, Saved(s2, file0, env.save), steps2)
    ELSE IF refreshes /\ env.refresh.ok
    THEN LET s3 == UpdateSession(env.refresh, n) IN
         AuthResult(TRUE, s3, 1, Saved(s3, file0, env.save), steps3)
    ELSE AuthenticateLate(s0, n, env, file0, steps3)

\* run: authenticate(); a False return ends the run with the zeroed result
Run ==
    /\ pc = "authenticate"
    /\ \E env \in AuthEnvs :
       LET a == Authenticate(store, now, env) IN
       /\ session' = a.session
       /\ store' = a.file
       /\ saveCount' = saveCount + a.saves
       /\ pc' = IF a.ok THEN "entry" ELSE "done"
    /\ UNCHANGED <<config, now, entitlements, claimable, idx, result, entry, cur,
                   prev, sm, browser, fnIn, fnOut, running>>

InitRun ==
    /\ pc = "authenticate"
    /\ config = [complete |-> TRUE, use_external_freebies |-> TRUE]
    /\ session = NoSession
    /\ now = 0
    /\ store \in StoredSessions
    /\ saveCount = 0
    /\ entitlements = {}
    /\ claimable = <<>>
    /\ idx = 0
    /\ result = NoResult
    /\ entry = NoEntry
    /\ cur = NoCur
    /\ prev = NoPrev
    /\ sm = NoSm
    /\ browser = "none"
    /\ running = TRUE
    /\ fnIn = [s |-> NoSession, n |-> 0]
    /\ fnOut = [fn |-> "none", value |-> FALSE]

NextRun ==
    \/ Run
    \/ Next

SpecRun == InitRun /\ [][NextRun]_vars

-----------------------------------------------------------------------------
(* authenticate on its own: every stored file and every behaviour of its
   collaborators *)

AuthInputs == [file : StoredSessions, env : AuthEnvs]

InitAuth ==
    /\ pc = "auth_fn"
    /\ config = [complete |-> TRUE, use_external_freebies |-> TRUE]
    /\ session = NoSession
    /\ now = 0
    /\ fnIn \in AuthInputs
    /\ store = fnIn.file
    /\ saveCount = 0
    /\ entitlements = {}
    /\ claimable = <<>>
    /\ idx = 0
    /\ result = NoResult
    /\ entry = NoEntry
    /\ cur = NoCur
    /\ prev = NoPrev
    /\ sm = NoSm
    /\ browser = "none"
    /\ running = TRUE
    /\ fnOut = [fn |-> "none", value |-> AuthResult(FALSE, NoSession, 0, fnIn.file, <<>>)]

\* a call of authenticate with the collaborators behaving as fnIn.env says
CallAuthenticate ==
    /\ pc = "auth_fn"
    /\ LET a == Authenticate(store, now, fnIn.env) IN
       /\ fnOut' = [fn |-> "authenticate", value |-> a]
       /\ session' = a.session
       /\ store' = a.file
       /\ saveCount' = saveCount + a.saves
    /\ pc' = "auth_done"
    /\ UNCHANGED <<config, now, entitlements, claimable, idx, result, entry, cur,
                   prev, sm, browser, fnIn, running>>

NextAuth == CallAuthenticate

SpecAuth == InitAuth /\ [][NextAuth]_vars

-----------------------------------------------------------------------------
(* SessionStore.save and load on their own: every file and every session *)

\* the sessions handed to save
SaveInputs ==
    {SessValid, SessExpiring, SessRefreshOnly, SessNoExpiry, SessEg1, SessEg1Stale}
        \cup {UpdateSession(t, n) : t \in TokenResponses, n \in 0..MaxT}

InitSave ==
    /\ pc = "save_fn"
    /\ config = [complete |-> TRUE, use_external_freebies |-> TRUE]
    /\ session \in SaveInputs
    /\ now = 0
    /\ store \in StoredSessions
    /\ saveCount = 0
    /\ entitlements = {}
    /\ claimable = <<>>
    /\ idx = 0
    /\ result = NoResult
    /\ entry = NoEntry
    /\ cur = NoCur
    /\ prev = NoPrev
    /\ sm = NoSm
    /\ browser = "none"
    /\ running = TRUE
    /\ fnIn = [s |-> session, file |-> store]
    /\ fnOut = [fn |-> "none", value |-> FALSE]

\* SessionStore.save(session): True when written, False on any exception
SaveFn ==
    /\ pc = "save_fn"
    /\ \E outcome \in SaveOutcomes :
       /\ store' = Saved(session, store, outcome)
       /\ fnOut' = [fn |-> "save", value |-> (outcome = "ok")]
    /\ saveCount' = saveCount + 1
    /\ pc' = "load_fn"
    /\ UNCHANGED <<config, session, now, entitlements, claimable, idx, result,
                   entry, cur, prev, sm, browser, fnIn, running>>

\* a later SessionStore.load()
LoadFn ==
    /\ pc = "load_fn"
    /\ session' = Load(store)
    /\ fnOut' = [fn |-> "load", value |-> Load(store).present]
    /\ pc' = "loaded"
    /\ UNCHANGED <<config, now, store, saveCount, entitlements, claimable, idx,
                   result, entry, cur, prev, sm, browser, fnIn, running>>

NextSave ==
    \/ SaveFn
    \/ LoadFn

SpecSave == InitSave /\ [][NextSave]_vars

\* Scheduler._setup_signal_handlers: SIGINT or SIGTERM arrives while a run is
\* under way; the handler logs and clears the flag
SignalHandler ==
    /\ pc \in {"loop", "outcome"} \cup InvocationPcs \cup {"verify"}
    /\ running
    /\ running' = FALSE
    /\ UNCHANGED <<pc, config, session, now, store, saveCount, entitlements,
                   claimable, idx, result, entry, cur, prev, sm, browser, fnIn,
                   fnOut>>

NextSignals ==
    \/ Next
    \/ SignalHandler

\* the run of SpecLive's account under the scheduler, signals included
SpecSignals == InitLive /\ [][NextSignals]_vars

-----------------------------------------------------------------------------
(* The Session predicates on their own: every session and every time *)

SessionInputs ==
    {MkSession(at, rt, "acc", e, r) :
        at \in {"", "tokA"}, rt \in {"", "refA"}, e \in Stamps, r \in Stamps}

InitSession ==
    /\ pc = "session_fn"
    /\ config = [complete |-> TRUE, use_external_freebies |-> TRUE]
    /\ session = NoSession
    /\ now = 0
    /\ store = NoSession
    /\ saveCount = 0
    /\ entitlements = {}
    /\ claimable = <<>>
    /\ idx = 0
    /\ result = NoResult
    /\ entry = NoEntry
    /\ cur = NoCur
    /\ prev = NoPrev
    /\ sm = NoSm
    /\ browser = "none"
    /\ running = TRUE
    /\ fnIn \in [s : SessionInputs, n : 0..MaxT]
    /\ fnOut = [fn |-> "none", value |-> FALSE]

\* a call of Session.is_valid at time fnIn.n
CallIsValid ==
    /\ pc = "session_fn"
    /\ fnOut.fn = "none"
    /\ fnOut' = [fn |-> "is_valid", value |-> IsValid(fnIn.s, fnIn.n)]
    /\ UNCHANGED <<runVars, fnIn>>

\* a call of Session.can_refresh at time fnIn.n
CallCanRefresh ==
    /\ pc = "session_fn"
    /\ fnOut.fn = "none"
    /\ fnOut' = [fn |-> "can_refresh", value |-> CanRefresh(fnIn.s, fnIn.n)]
    /\ UNCHANGED <<runVars, fnIn>>

NextSession ==
    \/ CallIsValid
    \/ CallCanRefresh

SpecSession == InitSession /\ [][NextSession]_vars

-----------------------------------------------------------------------------
(* _check_page_result on its own: every URL and every visible text *)

PageInputs == [url : Urls, text : SUBSET Signals]

InitPage ==
    /\ pc = "page_fn"
    /\ config = [complete |-> TRUE, use_external_freebies |-> TRUE]
    /\ session = NoSession
    /\ now = 0
    /\ store = NoSession
    /\ saveCount = 0
    /\ entitlements = {}
    /\ claimable = <<>>
    /\ idx = 0
    /\ result = NoResult
    /\ entry = NoEntry
    /\ cur = NoCur
    /\ prev = NoPrev
    /\ sm = NoSm
    /\ browser = "none"
    /\ running = TRUE
    /\ fnIn \in PageInputs
    /\ fnOut = [fn |-> "none", value |-> "none"]

\* a call of _check_page_result on the page fnIn
CallCheckPageResult ==
    /\ pc = "page_fn"
    /\ fnOut.fn = "none"
    /\ fnOut' = [fn |-> "check_page_result",
                 value |-> CheckPageResult(fnIn.url, fnIn.text)]
    /\ UNCHANGED <<runVars, fnIn>>

NextPage == CallCheckPageResult

SpecPage == InitPage /\ [][NextPage]_vars

-----------------------------------------------------------------------------
(* _find_button on its own, followed by Step 1 of the browser flow *)

\* bound of the model: number of selectors in the list handed to _find_button
MaxSelectors == 2
\* bound of the model: number of embedded frames of the page
MaxFrames == 1

\* what `locator(selector).first.is_visible()` does in one frame: True, False
\* (no element, or the first one hidden), or an exception
SelectorStates == {"visible", "hidden", "error"}

\* one frame: the state of every selector of the list, by index
FrameViews == [1..MaxSelectors -> SelectorStates]

\* a page: its top-level document and its embedded frames, in order
ButtonPages == [main : FrameViews, frames : SeqsUpTo(FrameViews, MaxFrames)]

\* _find_button returned None
NoButton == [frame |-> 0, selector |-> 0]

RECURSIVE ScanSelectors(_, _)
\* `for selector in selectors`: the index of the first selector from i on
\* that is visible in the frame (an exception means `continue`), 0 if none
ScanSelectors(view, i) ==
    IF i > MaxSelectors THEN 0
    ELSE IF view[i] = "visible" THEN i
    ELSE ScanSelectors(view, i + 1)

RECURSIVE ScanFrames(_, _)
\* `for frame in page.frames`: the first frame from k on with a visible
\* selector, and the first such selector in it
ScanFrames(frames, k) ==
    IF k > Len(frames) THEN NoButton
    ELSE LET sel == ScanSelectors(frames[k], 1) IN
         IF sel # 0 THEN [frame |-> k, selector |-> sel]
         ELSE ScanFrames(frames, k + 1)

FindButton_errorAborts(page) ==
    IF \E i \in 1..MaxSelectors : page.main[i] = "error" THEN NoButton
    ELSE LET sel == ScanSelectors(page.main, 1) IN
         IF sel # 0 THEN [frame |-> 0, selector |-> sel]
         ELSE ScanFrames(<<page.main>> \o page.frames, 1)

FindButton_mainOnly(page) ==
    LET sel == ScanSelectors(page.main, 1) IN
    IF sel # 0 THEN [frame |-> 0, selector |-> sel] ELSE NoButton

\* _find_button: the pass over the page, then the pass over page.frames,
\* whose first entry is the main frame again; frame 0 in the answer stands
\* for the first pass, frame k for page.frames[k - 1]
FindButton(page) ==
    LET sel == ScanSelectors(page.main, 1) IN
    IF sel # 0 THEN [frame |-> 0, selector |-> sel]
    ELSE ScanFrames(<<page.main>> \o page.frames, 1)

InitButton ==
    /\ pc = "find_fn"
    /\ config = [complete |-> TRUE, use_external_freebies |-> TRUE]
    /\ session = SessValid
    /\ now = 0
    /\ store = SessValid
    /\ saveCount = 0
    /\ entitlements = {}
    /\ claimable = <<G1>>
    /\ idx = 1
    /\ result = [NoResult EXCEPT !.games_processed = <<G1.title>>]
    /\ entry = [entered |-> TRUE, usable |-> TRUE, owned |-> NoOwned]
    /\ cur = [NewCur(1, G1, SessValid.access_token, 0, FALSE, TRUE) EXCEPT
                 !.open = [seen |-> TRUE, login |-> FALSE, code |-> FALSE,
                           owned |-> FALSE, opened |-> "continue"]]
    /\ prev = NoPrev
    /\ sm = NoSm
    /\ browser = "open"
    /\ running = TRUE
    /\ fnIn \in ButtonPages
    /\ fnOut = [fn |-> "none", value |-> NoButton]

\* order_button = self._find_button(page, CLAIM_BUTTON_SELECTORS)
CallFindButton ==
    /\ pc = "find_fn"
    /\ fnOut' = [fn |-> "find_button", value |-> FindButton(fnIn)]
    /\ pc' = "click_fn"
    /\ UNCHANGED <<config, session, now, store, saveCount, entitlements,
                   claimable, idx, result, entry, cur, prev, sm, browser, fnIn,
                   running>>

\* Step 1 with the button _find_button returned
ClickFound ==
    /\ pc = "click_fn"
    /\ smFrame
    /\ ButtonStep(fnOut.value # NoButton)

NextButton ==
    \/ CallFindButton
    \/ ClickFound

SpecButton == InitButton /\ [][NextButton]_vars

-----------------------------------------------------------------------------
(* One iteration of a checkout polling loop in which no checkout control is
   visible, on its own, and _check_page_result on the page it saw *)

\* the page of the iteration, the URL kept before the loop, and the loop
PollInputs ==
    [url : Urls, text : SUBSET {"owned", "success", "rate"},
     original_url : {"product", "other"}, loop : {"main", "fallback"}]

InitPoll ==
    /\ pc = "poll_fn"
    /\ config = [complete |-> TRUE, use_external_freebies |-> TRUE]
    /\ session = NoSession
    /\ now = 0
    /\ store = NoSession
    /\ saveCount = 0
    /\ entitlements = {}
    /\ claimable = <<>>
    /\ idx = 0
    /\ result = NoResult
    /\ entry = NoEntry
    /\ cur = NoCur
    /\ prev = NoPrev
    /\ sm = NoSm
    /\ browser = "none"
    /\ running = TRUE
    /\ fnIn \in PollInputs
    /\ fnOut = [fn |-> "none", value |-> "none", final |-> "none"]

\* the iteration of the main loop, or of the loop on the direct purchase page
CallPoll ==
    /\ pc = "poll_fn"
    /\ pc' = "polled"
    /\ fnOut' = [fn |-> "poll",
                 value |-> IF fnIn.loop = "main"
                           THEN PollResult(fnIn.url, fnIn.text, fnIn.original_url)
                           ELSE FallbackPollResult(fnIn.text),
                 final |-> "none"]
    /\ UNCHANGED <<config, session, now, store, saveCount, entitlements,
                   claimable, idx, result, entry, cur, prev, sm, browser,
                   running, fnIn>>

\* _check_page_result on the same page
CallClassify ==
    /\ pc = "polled"
    /\ pc' = "classified"
    /\ fnOut' = [fnOut EXCEPT !.fn = "poll_and_classify",
                              !.final = CheckPageResult(fnIn.url, fnIn.text)]
    /\ UNCHANGED <<config, session, now, store, saveCount, entitlements,
                   claimable, idx, result, entry, cur, prev, sm, browser,
                   running, fnIn>>

NextPoll ==
    \/ CallPoll
    \/ CallClassify

SpecPoll == InitPoll /\ [][NextPoll]_vars

-----------------------------------------------------------------------------
(* _handle_age_gate on its own *)

\* what is_visible answers for a drop-down toggle, or that the lookup raised
ToggleStates == {"visible", "hidden", "error"}

\* #btn_age_continue: not visible, visible and clicked, visible with a click
\* that raised, or a lookup that raised
ContinueStates == {"hidden", "clicked", "click_error", "error"}

\* the page as _handle_age_gate meets it: an _AGE_GATE_KEYWORDS string in the
\* text, the three toggles, the continue button, and whether page.evaluate
\* raises
AgeGatePages ==
    [keyword : BOOLEAN, day : ToggleStates, month : ToggleStates,
     year : ToggleStates, cont : ContinueStates, evaluate : {"ok", "error"}]

\* a visible toggle is clicked (errors while choosing the value are swallowed);
\* a hidden one is skipped with `continue`, as is one whose lookup raised
Toggle(state, field_id) == IF state = "visible" THEN <<field_id>> ELSE <<>>

\* the three drop-downs in the order of the loop
FillBirthDate(g) ==
    Toggle(g.day, "day_toggle") \o Toggle(g.month, "month_toggle")
        \o Toggle(g.year, "year_toggle")

\* the calls made on the continue button
ClickContinue(g) ==
    IF g.cont \in {"clicked", "click_error"} THEN <<"btn_age_continue">> ELSE <<>>

\* "Last resort": page.evaluate sets the storage flags, then page.reload; an
\* exception of evaluate skips the reload
JsBypass(g) ==
    IF g.evaluate = "ok" THEN <<"evaluate", "reload">> ELSE <<"evaluate">>

NoAgeGate == [calls |-> <<>>, flag |-> FALSE]

HandleAgeGate_bypassWithoutControls(g) ==
    IF ~g.keyword THEN NoAgeGate
    ELSE IF FillBirthDate(g) # <<>> /\ g.cont = "clicked"
    THEN [calls |-> FillBirthDate(g) \o ClickContinue(g), flag |-> FALSE]
    ELSE [calls |-> FillBirthDate(g) \o ClickContinue(g) \o JsBypass(g),
          flag |-> g.evaluate = "ok"]

\* EpicAPI._handle_age_gate: the calls it makes on the page, in order, and
\* whether the storage flag was set
HandleAgeGate(g) ==
    IF ~g.keyword THEN NoAgeGate
    ELSE IF g.cont = "clicked"
    THEN [calls |-> FillBirthDate(g) \o ClickContinue(g), flag |-> FALSE]
    ELSE [calls |-> FillBirthDate(g) \o ClickContinue(g) \o JsBypass(g),
          flag |-> g.evaluate = "ok"]

InitAgeGate ==
    /\ pc = "age_fn"
    /\ config = [complete |-> TRUE, use_external_freebies |-> TRUE]
    /\ session = NoSession
    /\ now = 0
    /\ store = NoSession
    /\ saveCount = 0
    /\ entitlements = {}
    /\ claimable = <<>>
    /\ idx = 0
    /\ result = NoResult
    /\ entry = NoEntry
    /\ cur = NoCur
    /\ prev = NoPrev
    /\ sm = NoSm
    /\ browser = "open"
    /\ running = TRUE
    /\ fnIn \in AgeGatePages
    /\ fnOut = [fn |-> "none", value |-> NoAgeGate]

\* a call of _handle_age_gate on the page fnIn
CallHandleAgeGate ==
    /\ pc = "age_fn"
    /\ pc' = "age_done"
    /\ fnOut' = [fn |-> "handle_age_gate", value |-> HandleAgeGate(fnIn)]
    /\ UNCHANGED <<config, session, now, store, saveCount, entitlements,
                   claimable, idx, result, entry, cur, prev, sm, browser,
                   running, fnIn>>

NextAgeGate == CallHandleAgeGate

SpecAgeGate == InitAgeGate /\ [][NextAgeGate]_vars

-----------------------------------------------------------------------------
(* The CAPTCHA wait on its own, from the moment _has_captcha answered True *)

\* the invocation as it enters _wait_for_captcha_resolution: the claim button
\* was clicked, the classification after the checkout click was neither
\* CLAIMED nor ALREADY_OWNED, and a text read so far may have held rate-limit
\* text (it always did when that classification was RATE_LIMITED)
InitCaptcha ==
    /\ pc = "sm_captcha"
    /\ config = [complete |-> TRUE, use_external_freebies |-> TRUE]
    /\ session \in {SessValid, SessExpiring}
    /\ store = session
    /\ now = 0
    /\ saveCount = 0
    /\ entitlements \in SUBSET {E1, E2}
    /\ \E game \in Games, check \in {FAILED, RATE_LIMITED}, rate \in BOOLEAN :
          /\ check = RATE_LIMITED => rate
          /\ claimable = <<game>>
          /\ result = [NoResult EXCEPT !.games_processed = <<game.title>>]
          /\ cur = [NewCur(1, game, session.access_token, 0, FALSE, TRUE) EXCEPT
                       !.open = [seen |-> TRUE, login |-> FALSE, code |-> FALSE,
                                 owned |-> FALSE, opened |-> "continue"],
                       !.clicked = TRUE, !.check = check, !.rateSeen = rate]
    /\ idx = 1
    /\ entry = [entered |-> TRUE, usable |-> TRUE, owned |-> NoOwned]
    /\ prev = NoPrev
    /\ sm = NoSm
    /\ browser = "open"
    /\ running = TRUE
    /\ fnIn = "none"
    /\ fnOut = "none"

NextCaptcha == SmCaptcha

SpecCaptcha == InitCaptcha /\ [][NextCaptcha]_vars

-----------------------------------------------------------------------------
(* The verification loop of claim_game while every ownership-listing request
   fails *)

\* claim_game after the browser flow returned CLAIMED; the order may or may
\* not have been fulfilled by then
InitVerifyDown ==
    /\ pc = "verify"
    /\ config = [complete |-> TRUE, use_external_freebies |-> TRUE]
    /\ session \in {SessValid, SessExpiring}
    /\ store = session
    /\ now = 0
    /\ saveCount = 0
    /\ \E game \in Games, others \in SUBSET {E1, E2}, fulfilled \in BOOLEAN,
          check \in {CLAIMED, FAILED} :
          /\ game.namespace \notin {e.namespace : e \in others}
          /\ entitlements = others \cup (IF fulfilled THEN {GrantOf(game)} ELSE {})
          /\ claimable = <<game>>
          /\ result = [NoResult EXCEPT !.games_processed = <<game.title>>]
          /\ cur = [NewCur(1, game, session.access_token, 0, FALSE, TRUE) EXCEPT
                       !.open = [seen |-> TRUE, login |-> FALSE, code |-> FALSE,
                                 owned |-> FALSE, opened |-> "continue"],
                       !.clicked = TRUE, !.check = check, !.smResult = CLAIMED]
    /\ idx = 1
    /\ entry = [entered |-> TRUE, usable |-> TRUE, owned |-> NoOwned]
    /\ prev = NoPrev
    /\ sm = NoSm
    /\ browser = "closed"
    /\ running = TRUE
    /\ fnIn = "none"
    /\ fnOut = "none"

\* one attempt of the verification loop whose request fails
VerifyPollDown ==
    /\ pc = "verify"
    /\ smFrame
    /\ UNCHANGED <<browser, sm>>
    /\ VerifyStep("request_error")

NextVerifyDown == VerifyPollDown

SpecVerifyDown == InitVerifyDown /\ [][NextVerifyDown]_vars

-----------------------------------------------------------------------------
(* Scheduler.run_scheduled, src/src/scheduler.py.  A claim cycle
   (_execute_claim) is a bounded number of steps that never read the flag;
   fnOut holds the bookkeeping of the cycles, fnIn the time left of a wait. *)

\* bound of the model: claim cycles one run_scheduled may start
MaxCycles == 2
\* bound of the model: steps of one claim cycle
MaxCycleSteps == 2
\* bound of the model: sleeps until the next scheduled run time
MaxWait == 2

SchedPcs == {"sch_start", "sch_cycle", "sch_loop", "sch_wait", "sch_check",
             "sch_returned"}

StartsCycle_always(flag) == TRUE

\* run_scheduled: `if self._running:` after _wait_until
StartsCycle(flag) == flag

\* run_scheduled: `while self._running:`
LoopContinues(flag) == flag

\* _wait_until: `while self._running and datetime.now() < target`
WaitContinues(flag, remaining) == flag /\ remaining > 0

\* cycles: cycles started; step: steps done of the cycle in progress;
\* completed / raised: cycles that ran to their end / that raised;
\* firstWithFlagSet, laterWithFlagSet: the initial cycle, a later cycle, was
\* started with the flag already set; stoppedDuring: the cycle in progress
\* when the flag was set (0: none); afterStop: how that cycle ended
NoCycles == [fn |-> "run_scheduled", cycles |-> 0, step |-> 0, completed |-> 0,
             raised |-> 0, firstWithFlagSet |-> FALSE,
             laterWithFlagSet |-> FALSE, stoppedDuring |-> 0,
             afterStop |-> "none"]

\* the scheduler after construction: handlers installed, flag set to True
InitSched ==
    /\ pc = "sch_start"
    /\ config = [complete |-> TRUE, use_external_freebies |-> TRUE]
    /\ session = NoSession
    /\ now = 0
    /\ store = NoSession
    /\ saveCount = 0
    /\ entitlements = {}
    /\ claimable = <<>>
    /\ idx = 0
    /\ result = NoResult
    /\ entry = NoEntry
    /\ cur = NoCur
    /\ prev = NoPrev
    /\ sm = NoSm
    /\ browser = "none"
    /\ running = TRUE
    /\ fnIn = [remaining |-> 0]
    /\ fnOut = NoCycles

schedFrame ==
    UNCHANGED <<config, session, now, store, saveCount, entitlements, claimable,
                idx, result, entry, cur, prev, sm, browser>>

\* run_scheduled: "Run immediately on start": _execute_claim() before the loop
SchInitialCycle ==
    /\ pc = "sch_start"
    /\ pc' = "sch_cycle"
    /\ fnOut' = [fnOut EXCEPT !.cycles = 1, !.step = 0,
                              !.firstWithFlagSet = ~running]
    /\ schedFrame
    /\ UNCHANGED <<running, fnIn>>

\* _execute_claim: one step of the cycle; an exception of claimer.run is
\* caught and logged, and the cycle is over; so it is after its last step
SchCycleStep ==
    /\ pc = "sch_cycle"
    /\ \E exception \in BOOLEAN :
       LET ended == fnOut.stoppedDuring = fnOut.cycles IN
       IF exception
       THEN /\ pc' = "sch_loop"
            /\ fnOut' = [fnOut EXCEPT !.raised = @ + 1,
                                      !.afterStop = IF ended THEN "raised" ELSE @]
       ELSE IF fnOut.step = MaxCycleSteps
       THEN /\ pc' = "sch_loop"
            /\ fnOut' = [fnOut EXCEPT !.completed = @ + 1,
                                      !.afterStop = IF ended THEN "completed" ELSE @]
       ELSE /\ fnOut' = [fnOut EXCEPT !.step = @ + 1]
            /\ UNCHANGED pc
    /\ schedFrame
    /\ UNCHANGED <<running, fnIn>>

\* run_scheduled: the test of the while loop, then get_next_run_time
SchLoop ==
    /\ pc = "sch_loop"
    /\ IF LoopContinues(running)
       THEN /\ fnOut.cycles < MaxCycles
            /\ \E r \in 1..MaxWait : fnIn' = [remaining |-> r]
            /\ pc' = "sch_wait"
       ELSE /\ pc' = "sch_returned"
            /\ UNCHANGED fnIn
    /\ schedFrame
    /\ UNCHANGED <<running, fnOut>>

\* _wait_until: one sleep, or the end of the wait
SchWait ==
    /\ pc = "sch_wait"
    /\ IF WaitContinues(running, fnIn.remaining)
       THEN /\ fnIn' = [remaining |-> fnIn.remaining - 1]
            /\ UNCHANGED pc
       ELSE /\ pc' = "sch_check"
            /\ UNCHANGED fnIn
    /\ schedFrame
    /\ UNCHANGED <<running, fnOut>>

\* run_scheduled: `if self._running: self._execute_claim()`
SchCheck ==
    /\ pc = "sch_check"
    /\ IF StartsCycle(running)
       THEN /\ pc' = "sch_cycle"
            /\ fnOut' = [fnOut EXCEPT !.cycles = @ + 1, !.step = 0,
                                      !.laterWithFlagSet = @ \/ ~running]
       ELSE /\ pc' = "sch_loop"
            /\ UNCHANGED fnOut
    /\ schedFrame
    /\ UNCHANGED <<running, fnIn>>

\* the handler of SIGINT and SIGTERM, at any moment before run_scheduled
\* returned
SchSignal ==
    /\ pc \in SchedPcs \ {"sch_returned"}
    /\ running
    /\ running' = FALSE
    /\ fnOut' = [fnOut EXCEPT !.stoppedDuring =
                                 IF pc = "sch_cycle" THEN fnOut.cycles ELSE 0]
    /\ schedFrame
    /\ UNCHANGED <<pc, fnIn>>

\* the statements of run_scheduled and of the cycle
SchProgram ==
    \/ SchInitialCycle
    \/ SchCycleStep
    \/ SchLoop
    \/ SchWait
    \/ SchCheck

NextSched ==
    \/ SchProgram
    \/ SchSignal

\* run_scheduled is one thread of control: a statement that can be executed
\* is executed, a sleep ends, a claim cycle ends; signals come when they come
SpecSched == InitSched /\ [][NextSched]_vars /\ WF_vars(SchProgram)

-----------------------------------------------------------------------------
(* Discovery: get_free_games and _parse_promotions_response, src/src/api.py *)

\* bound of the model: catalog elements in a freeGamesPromotions response
MaxElements == 2

\* datetime.now(timezone.utc) at the moment of the parse
DiscoveryNow == 2

\* promotional offers by what the parse reads: discountPercentage, startDate,
\* endDate.  Free and active, free and expired, free with an unparseable
\* start date, free with a start date that has no UTC offset, paid and active
FreeActive == [discount |-> 0, startDate |-> Aware(1), endDate |-> Aware(3)]
FreeExpired == [discount |-> 0, startDate |-> Aware(0), endDate |-> Aware(1)]
FreeUnparseable == [discount |-> 0, startDate |-> BadStamp, endDate |-> Aware(3)]
FreeNaive == [discount |-> 0, startDate |-> Naive(1), endDate |-> Aware(3)]
PaidActive == [discount |-> 50, startDate |-> Aware(1), endDate |-> Aware(3)]
OfferKinds == {FreeActive, FreeExpired, FreeUnparseable, FreeNaive, PaidActive}

\* a catalog element: its game fields and the promotional offers of its
\* promo groups, flattened in order; promotions = FALSE: no "promotions"
CatalogElements ==
    [game : Games, promotions : {FALSE}, offers : {<<>>}]
        \cup [game : Games, promotions : {TRUE}, offers : SeqsUpTo(OfferKinds, 2)]

OfferOutcome_anyWindow(offer, n) ==
    IF offer.discount # 0 THEN "skipped"
    ELSE IF offer.startDate.kind \in {"bad", "empty"}
            \/ offer.endDate.kind \in {"bad", "empty"} THEN "skipped"
    ELSE "listed"

\* _parse_promotions_response, one promotional offer: skipped unless the
\* discount is 0; fromisoformat of both dates (ValueError and KeyError are
\* caught: skipped); `start <= now <= end`, which raises TypeError when a
\* date it compares carries no UTC offset
OfferOutcome(offer, n) ==
    IF offer.discount # 0 THEN "skipped"
    ELSE IF offer.startDate.kind \in {"bad", "empty"}
            \/ offer.endDate.kind \in {"bad", "empty"} THEN "skipped"
    ELSE IF offer.startDate.kind = "naive" THEN "raised"
    ELSE IF offer.startDate.t > n THEN "skipped"
    ELSE IF offer.endDate.kind = "naive" THEN "raised"
    ELSE IF n <= offer.endDate.t THEN "listed"
    ELSE "skipped"

NoParse == [games |-> <<>>, raised |-> FALSE]

RECURSIVE ParseOffers(_, _, _)
\* the loops over the promo groups and offers of one element
ParseOffers(game, offers, n) ==
    IF offers = <<>> THEN NoParse
    ELSE LET o == OfferOutcome(Head(offers), n)
             rest == ParseOffers(game, Tail(offers), n) IN
         IF o = "raised" THEN [games |-> <<>>, raised |-> TRUE]
         ELSE IF o = "listed"
         THEN [games |-> <<game>> \o rest.games, raised |-> rest.raised]
         ELSE rest

RECURSIVE ParseElements(_, _)
\* `for game in elements`
ParseElements(elements, n) ==
    IF elements = <<>> THEN NoParse
    ELSE LET e == Head(elements)
             first == IF e.promotions THEN ParseOffers(e.game, e.offers, n)
                      ELSE NoParse
             rest == ParseElements(Tail(elements), n) IN
         IF first.raised THEN first
         ELSE [games |-> first.games \o rest.games, raised |-> rest.raised]

\* _parse_promotions_response: the list built by the loops, or [] when an
\* exception other than KeyError and ValueError left them
ParsePromotionsResponse(elements, n) ==
    LET parsed == ParseElements(elements, n) IN
    IF parsed.raised THEN <<>> ELSE parsed.games

\* get_free_games: the primary list when it is not empty, else the external
\* source
GetFreeGames(primary, external) ==
    IF primary # <<>> THEN [games |-> primary, external_called |-> FALSE]
    ELSE [games |-> external, external_called |-> TRUE]

DiscoveryInputs ==
    [elements : SeqsUpTo(CatalogElements, MaxElements),
     external : {<<>>, <<G2>>}]

InitDiscovery ==
    /\ pc = "discover_fn"
    /\ config = [complete |-> TRUE, use_external_freebies |-> TRUE]
    /\ session = SessValid
    /\ now = 0
    /\ store = SessValid
    /\ saveCount = 0
    /\ entitlements = {}
    /\ claimable = <<>>
    /\ idx = 0
    /\ result = NoResult
    /\ entry = NoEntry
    /\ cur = NoCur
    /\ prev = NoPrev
    /\ sm = NoSm
    /\ browser = "none"
    /\ running = TRUE
    /\ fnIn \in DiscoveryInputs
    /\ fnOut = [fn |-> "none", parsed |-> <<>>,
                value |-> [games |-> <<>>, external_called |-> FALSE]]

\* a call of get_free_games on the response fnIn.elements
CallGetFreeGames ==
    /\ pc = "discover_fn"
    /\ pc' = "discovered"
    /\ LET parsed == ParsePromotionsResponse(fnIn.elements, DiscoveryNow) IN
       fnOut' = [fn |-> "get_free_games", parsed |-> parsed,
                 value |-> GetFreeGames(parsed, fnIn.external)]
    /\ UNCHANGED <<config, session, now, store, saveCount, entitlements,
                   claimable, idx, result, entry, cur, prev, sm, browser,
                   running, fnIn>>

NextDiscovery == CallGetFreeGames

SpecDiscovery == InitDiscovery /\ [][NextDiscovery]_vars

-----------------------------------------------------------------------------
(* Properties *)

\* positions inside claim_game
SmPcs == {"sm_start", "sm_open", "sm_button", "sm_checkout", "sm_fallback",
          "sm_fallback_poll", "sm_submit", "sm_captcha", "sm_post_captcha",
          "sm_final", "verify", "outcome"}

\* the offer recorded in cur is the one FinishOffer last counted
CurFinished == prev.index >= 1 /\ cur.index = prev.index /\ pc \in {"loop", "done"}

\* C1: once claim_game has returned RATE_LIMITED the run is over: no claim_game
\* call for a later offer is made, the offers processed are exactly those up to
\* the rate-limited one, and when the rate-limited offer is the first of the
\* queue the result is failed = 1, claimed = 0, already_owned = 0.
C1_RateLimitAbortsQueue ==
    prev.status = RATE_LIMITED =>
        /\ pc = "done"
        /\ cur.index = prev.index
        /\ Len(result.games_processed) = prev.index
        /\ prev.index = 1 =>
              /\ result.failed = 1
              /\ result.claimed = 0
              /\ result.already_owned = 0

\* a queue of two offers whose first was rate-limited
C1_Witness ==
    /\ pc = "done"
    /\ Len(claimable) = 2
    /\ prev.index = 1
    /\ prev.status = RATE_LIMITED
    /\ result.games_processed = <<claimable[1].title>>

\* C2: claim_game answers CLAIMED only when the browser flow returned CLAIMED
\* and an ownership query made afterwards listed the namespace; when none of
\* the ten queries lists it the answer is FAILED, and an offer counts as claimed
\* only on the answer CLAIMED (a first offer that failed verification leaves
\* claimed = 0, failed = 1).
C2_ClaimedOnlyWhenVerified ==
    /\ cur.status = CLAIMED =>
          /\ cur.smResult = CLAIMED
          /\ cur.queries >= 1
          /\ cur.listed
    /\ (pc \notin {"verify"} /\ cur.smResult = CLAIMED /\ ~cur.listed
            /\ cur.queries = VerifyAttempts) => cur.status = FAILED
    /\ (CurFinished /\ prev.index = 1) =>
          /\ result.claimed = (IF cur.status = CLAIMED THEN 1 ELSE 0)
          /\ (cur.smResult = CLAIMED /\ ~cur.listed /\ cur.queries = VerifyAttempts)
                => (result.claimed = 0 /\ result.failed = 1)

\* the browser flow said CLAIMED, ten queries were made, none listed the
\* namespace, and the single offer was counted as failed
C2_Witness ==
    /\ pc = "done"
    /\ Len(claimable) = 1
    /\ cur.smResult = CLAIMED
    /\ cur.queries = VerifyAttempts
    /\ ~cur.listed
    /\ result.failed = 1
    /\ result.claimed = 0

\* C3: when the browser flow returned CLAIMED and the listing of the k-th
\* ownership query (k <= 10) holds the namespace, claim_game returns CLAIMED at
\* that query, and a run whose only offer this is ends with claimed = 1,
\* failed = 0, already_owned = 0.
C3_VerifiedClaimCounts ==
    (cur.smResult = CLAIMED /\ cur.listed) =>
        /\ cur.queries \in 1..VerifyAttempts
        /\ pc # "verify"
        /\ cur.status = CLAIMED
        /\ (pc = "done" /\ Len(claimable) = 1) =>
              /\ result.claimed = 1
              /\ result.failed = 0
              /\ result.already_owned = 0

\* a single offer whose namespace showed up at the third query
C3_Witness ==
    /\ pc = "done"
    /\ Len(claimable) = 1
    /\ cur.smResult = CLAIMED
    /\ cur.listed
    /\ cur.queries = 3
    /\ result.claimed = 1

\* C4: when an offer ended FAILED, the session could refresh and the refresh
\* succeeded, SessionStore.save was invoked exactly once, with the session that
\* carries the new access token; self.session carries it too, and the
\* claim_game call for the next offer starts after that save and is given the
\* new token.
C4_RefreshSavedBeforeNextOffer ==
    prev.refreshed = "ok" =>
        /\ prev.status = FAILED
        /\ prev.savesAfter = prev.savesBefore + 1
        /\ prev.token # ""
        /\ prev.savedToken = prev.token
        /\ session.access_token = prev.token
        /\ cur.index > prev.index =>
              /\ cur.savesAtStart = prev.savesAfter
              /\ cur.token = prev.token

\* the first offer failed with the old token, the refresh succeeded, and the
\* claim_game call for the second offer is in progress
C4_Witness ==
    /\ prev.index = 1
    /\ prev.refreshed = "ok"
    /\ prev.savedToken = "tokB"
    /\ cur.index = 2
    /\ cur.token = "tokB"
    /\ pc \in SmPcs

\* C5 (as stated; the code does not keep it): a run entered with a session
\* that is not usable (absent, empty access token, or inside the five-minute
\* buffer) returns the zeroed ClaimResult with no offer processed and never
\* reaches the claim loop or claim_game.
C5_UnusableSessionDoesNothing ==
    (entry.entered /\ ~entry.usable /\ config.complete) =>
        /\ pc = "done"
        /\ result = NoResult
        /\ cur = NoCur

\* C6 (as stated): is_valid is true exactly when the access token is
\* non-empty and now is earlier than expires_at minus five minutes, expires_at
\* being any timestamp that parses.
C6_AsStated ==
    fnOut.fn = "is_valid" =>
        (fnOut.value <=>
            /\ fnIn.s.access_token # ""
            /\ fnIn.s.expires_at.kind \in {"aware", "naive"}
            /\ fnIn.n < fnIn.s.expires_at.t - BufferMin)

\* C6 (amended): is_valid is true exactly when the access token is non-empty,
\* expires_at parses to a timestamp that carries a UTC offset, and now is
\* earlier than expires_at minus five minutes; it is false in every other
\* case: empty token, empty or unparseable expires_at, a timestamp without
\* offset, or now at or after expires_at minus five minutes.
C6_IsValid ==
    fnOut.fn = "is_valid" =>
        (fnOut.value <=>
            /\ fnIn.s.access_token # ""
            /\ fnIn.s.expires_at.kind = "aware"
            /\ fnIn.n < fnIn.s.expires_at.t - BufferMin)

\* is_valid was called exactly five minutes before expiry and said no
C6_Witness ==
    /\ fnOut.fn = "is_valid"
    /\ fnIn.s.access_token # ""
    /\ fnIn.s.expires_at.kind = "aware"
    /\ fnIn.n = fnIn.s.expires_at.t - BufferMin
    /\ ~fnOut.value

\* C7 (as stated): can_refresh is true exactly when the refresh token is
\* non-empty and now is earlier than refresh_expires_at, refresh_expires_at
\* being any timestamp that parses.
C7_AsStated ==
    fnOut.fn = "can_refresh" =>
        (fnOut.value <=>
            /\ fnIn.s.refresh_token # ""
            /\ fnIn.s.refresh_expires_at.kind \in {"aware", "naive"}
            /\ fnIn.n < fnIn.s.refresh_expires_at.t)

\* C7 (amended): can_refresh is true exactly when the refresh token is
\* non-empty, refresh_expires_at parses to a timestamp that carries a UTC
\* offset, and now is earlier than it; it is false in every other case.
C7_CanRefresh ==
    fnOut.fn = "can_refresh" =>
        (fnOut.value <=>
            /\ fnIn.s.refresh_token # ""
            /\ fnIn.s.refresh_expires_at.kind = "aware"
            /\ fnIn.n < fnIn.s.refresh_expires_at.t)

\* can_refresh was called at the very instant of expiry and said no
C7_Witness ==
    /\ fnOut.fn = "can_refresh"
    /\ fnIn.s.refresh_token # ""
    /\ fnIn.s.refresh_expires_at.kind = "aware"
    /\ fnIn.n = fnIn.s.refresh_expires_at.t
    /\ ~fnOut.value

\* C8: every offer get_claimable_games returned has a namespace outside the
\* owned-namespace set queried in that call; the offer id plays no part.
C8_ClaimableNotOwnedByNamespace ==
    entry.entered =>
        \A i \in 1..Len(claimable) :
            claimable[i].namespace \notin entry.owned.namespaces

\* an offer was filtered out by its namespace and another was kept although
\* its id is among the owned catalog item ids
C8_Witness ==
    /\ entry.entered
    /\ "ns1" \in entry.owned.namespaces
    /\ \E i \in 1..Len(claimable) : claimable[i].id \in entry.owned.ids

C10_SuccessBeatsOwned ==
    (/\ fnOut.fn = "check_page_result"
     /\ "rate" \notin fnIn.text
     /\ "success" \in fnIn.text
     /\ "owned" \in fnIn.text) => fnOut.value = CLAIMED

\* such a page whose URL carries no success marker
C10_Witness ==
    /\ fnOut.fn = "check_page_result"
    /\ fnIn.url = "product"
    /\ fnIn.text = {"success", "owned"}
    /\ fnOut.value = CLAIMED

\* C11 (as stated; the code does not keep it): an invocation of the browser
\* flow that read rate-limit text at any of its classification points (opened
\* product page, checkout polling, after the checkout click, CAPTCHA wait,
\* after the CAPTCHA, final classification) returns RATE_LIMITED.
C11_RateLimitTextWins ==
    (cur.rateSeen /\ cur.smResult # "none") => cur.smResult = RATE_LIMITED

\* C12 (as stated): the verification answers FAILED only after ten queries
\* none of which listed the namespace.
C12_AsStated ==
    (cur.smResult = CLAIMED /\ cur.status = FAILED) =>
        (cur.queries = VerifyAttempts /\ ~cur.listed)

\* C12 (amended): one ownership verification issues at most ten queries and
\* none after the first whose listing holds the namespace; it answers CLAIMED
\* at that first match, and FAILED either after ten queries without a match
\* or as soon as a query raises an unexpected exception.
C12_VerificationBounded ==
    /\ cur.queries <= VerifyAttempts
    /\ cur.listed => (pc # "verify" /\ cur.status = CLAIMED)
    /\ (cur.smResult = CLAIMED /\ cur.status = CLAIMED) =>
          (cur.listed /\ cur.queries >= 1)
    /\ (cur.smResult = CLAIMED /\ cur.status = FAILED) =>
          \/ cur.queries = VerifyAttempts /\ ~cur.listed /\ ~cur.raised
          \/ cur.raised /\ ~cur.listed /\ cur.queries >= 1
    /\ (pc = "verify") => (cur.smResult = CLAIMED /\ cur.status = "none")

\* the tenth and last query was the first to list the namespace
C12_Witness ==
    /\ pc = "outcome"
    /\ cur.smResult = CLAIMED
    /\ cur.queries = VerifyAttempts
    /\ cur.listed
    /\ cur.status = CLAIMED

\* C13: an exception raised while an offer is processed (anywhere in the
\* browser flow, or by an ownership query of the verification) makes claim_game
\* return FAILED: claim_all_games does not raise, counts the offer as failed,
\* and goes on to the next offer of the queue when there is one.
C13_ExceptionBecomesFailed ==
    /\ cur.crashed => (cur.smResult = FAILED /\ cur.status = FAILED)
    /\ cur.raised => (cur.status = FAILED /\ pc # "verify")
    /\ (cur.crashed \/ cur.raised) => pc \in {"outcome", "loop", "done"}
    /\ (CurFinished /\ (cur.crashed \/ cur.raised)) =>
          /\ prev.status = FAILED
          /\ result.failed >= 1
          /\ prev.index = 1 => (result.failed = 1 /\ result.claimed = 0)
          /\ pc = (IF prev.index < Len(claimable) THEN "loop" ELSE "done")
    /\ pc = "raised" => cur = NoCur

\* the first of two offers crashed in the browser, was counted as failed, and
\* the run is about to start the second
C13_Witness ==
    /\ pc = "loop"
    /\ Len(claimable) = 2
    /\ cur.index = 1
    /\ cur.crashed
    /\ prev.index = 1
    /\ result.failed = 1
    /\ idx = 2

C15_InvocationTerminates ==
    /\ [](/\ pc = "sm_checkout" => sm.retry < CheckoutRetries
          /\ pc = "sm_fallback_poll" => sm.retry < FallbackRetries
          /\ pc = "sm_captcha" => sm.retry <= MaxCaptchaPolls
          /\ pc = "verify" => cur.queries < VerifyAttempts
          /\ pc \in InvocationPcs => cur.smResult = "none"
          /\ pc \in {"verify", "outcome"} => cur.smResult \in ClaimStatus)
    /\ (pc \in InvocationPcs) ~> (pc \in {"verify", "outcome"})
    /\ (pc = "verify") ~> (pc = "outcome" /\ cur.status \in ClaimStatus)

\* the last iteration of the last polling loop, after the first one ran out
C15_Witness ==
    /\ pc = "sm_fallback_poll"
    /\ sm.retry = FallbackRetries - 1
    /\ cur.index = 2

\* the offers attempted so far are the first entries of the claimable list, in
\* list order, one attempt per entry
C16_PrefixInOrder ==
    /\ Len(result.games_processed) <= Len(claimable)
    /\ \A i \in 1..Len(result.games_processed) :
          result.games_processed[i] = claimable[i].title
    /\ cur.index >= 1 =>
          /\ cur.index = Len(result.games_processed)
          /\ cur.game = claimable[cur.index]
          /\ prev.index \in {cur.index - 1, cur.index}
    /\ pc \in InvocationPcs => (cur.index = idx /\ prev.index = idx - 1)

\* C16: the offers attempted are a prefix of the claimable list in list order,
\* each entry attempted at most once, and an offer whose outcome was FAILED is
\* not attempted again in the run.
C16_AsStated ==
    /\ C16_PrefixInOrder
    /\ (pc \in InvocationPcs /\ prev.index >= 1 /\ prev.status = FAILED)
          => cur.game # claimable[prev.index]

\* C17: the step of the claim loop that follows an offer attempts a refresh
\* only when the offer's outcome is FAILED and the session can_refresh, and at
\* most one (so at most one save); after RATE_LIMITED, ALREADY_OWNED or CLAIMED
\* it attempts none and leaves the session and the store alone.
C17_RefreshOnlyAfterFailed ==
    [][pc = "outcome" =>
          /\ prev'.index = cur.index
          /\ prev'.status = cur.status
          /\ prev'.refreshed # "no" =>
                (cur.status = FAILED /\ CanRefresh(session, now))
          /\ cur.status \in {RATE_LIMITED, ALREADY_OWNED, CLAIMED} =>
                /\ prev'.refreshed = "no"
                /\ session' = session
                /\ store' = store
                /\ saveCount' = saveCount
          /\ saveCount' <= saveCount + 1
          /\ prev'.refreshed # "ok" => session' = session]_vars

\* a refresh was attempted after the FAILED first offer and gave no token
C17_Witness ==
    /\ pc = "loop"
    /\ prev.index = 1
    /\ prev.status = FAILED
    /\ prev.refreshed = "failed"
    /\ prev.savesAfter = prev.savesBefore

\* C18: the shutdown flag is looked at between offers: no claim attempt is
\* started once the flag has been set, so every offer attempted was started
\* while the flag was still unset.
C18_NoOfferAfterShutdown ==
    cur.index >= 1 => cur.runningAtStart

\* C19: a session whose tokens differ from what the session file held has been
\* handed to SessionStore.save before it is used: as long as no save was
\* invoked the session in use is the one loaded from the file, and a refresh
\* in the claim loop is followed by the save of the refreshed session.
C19_SaveAfterEveryTokenChange ==
    /\ (pc \notin {"authenticate", "done"} /\ session.present /\ saveCount = 0)
          => session.access_token = store.access_token
    /\ prev.refreshed = "ok" =>
          /\ prev.savesAfter = prev.savesBefore + 1
          /\ prev.savedToken = prev.token

\* C20: after a save, whether it succeeded, failed or was cut short, the
\* session file holds the complete old content or the complete new session,
\* and a later load of a file that held a session returns a session.
C20_AtomicSave ==
    /\ pc \in {"load_fn", "loaded"} => store \in {fnIn.file, fnIn.s}
    /\ (pc = "loaded" /\ Load(fnIn.file).present) =>
          (fnOut.value /\ session \in {fnIn.file, fnIn.s})

\* positions inside one call of claim_game: the browser flow and the
\* ownership verification
ClaimGamePcs == InvocationPcs \cup {"verify"}

\* C21: no step of a claim_game call (browser flow, ownership verification)
\* changes the in-memory session or the session file, and none invokes
\* SessionStore.save.
C21_ClaimGameLeavesSession ==
    [][(pc \in ClaimGamePcs) =>
          (session' = session /\ store' = store /\ saveCount' = saveCount)]_vars

\* a claim_game call that went through the browser flow and three ownership
\* queries has returned, the session and the file being those of the start
C21_Witness ==
    /\ pc = "outcome"
    /\ cur.index = 1
    /\ cur.smResult = CLAIMED
    /\ cur.queries = 3
    /\ session = SessExpiring
    /\ store = SessExpiring
    /\ saveCount = 0

\* C22: the ownership listing is queried only after the browser flow returned
\* CLAIMED; ALREADY_OWNED, FAILED and RATE_LIMITED are returned as they are,
\* without a query, and ALREADY_OWNED is counted as already_owned.
C22_VerifyOnlyAfterClaimed ==
    /\ cur.queries > 0 => cur.smResult = CLAIMED
    /\ pc = "verify" => cur.smResult = CLAIMED
    /\ cur.smResult \in {ALREADY_OWNED, FAILED, RATE_LIMITED} =>
          /\ cur.queries = 0
          /\ cur.status = cur.smResult
          /\ ~cur.listed
    /\ (CurFinished /\ cur.smResult = ALREADY_OWNED) =>
          /\ prev.status = ALREADY_OWNED
          /\ result.already_owned >= 1
          /\ prev.index = 1 => result = [NoResult EXCEPT
                                            !.already_owned = 1,
                                            !.games_processed = <<cur.game.title>>]

\* the first offer came back ALREADY_OWNED and was counted, no query made
C22_Witness ==
    /\ pc = "loop"
    /\ prev.index = 1
    /\ cur.index = 1
    /\ cur.smResult = ALREADY_OWNED
    /\ cur.queries = 0
    /\ result.already_owned = 1

\* C23: the list the claim loop iterates has no two entries with the same
\* namespace and offer id, so the browser flow is not started twice for one
\* offer in a run.
C23_ClaimableDeduplicated ==
    /\ \A i, j \in 1..Len(claimable) :
          (claimable[i].namespace = claimable[j].namespace
             /\ claimable[i].id = claimable[j].id) => i = j
    /\ (pc \in InvocationPcs /\ cur.index = 2) => cur.game # claimable[1]

\* the three counters of the ClaimResult, added up
Counted(r) == r.claimed + r.failed + r.already_owned

\* C24: when claim_all_games returns, and between two offers, the three
\* counters add up to the number of titles in games_processed, which is the
\* number of claim_game calls made; while an offer is in progress it is the
\* one title not yet counted; every finished offer, the rate-limited one
\* included, raised exactly one counter.
C24_CountersMatchProcessed ==
    /\ pc \in {"entry", "loop", "done"} =>
          Counted(result) = Len(result.games_processed)
    /\ pc \in SmPcs => Counted(result) = Len(result.games_processed) - 1
    /\ Len(result.games_processed) = cur.index
    /\ CurFinished =>
          /\ Counted(result) = prev.index
          /\ prev.status = CLAIMED => result.claimed >= 1
          /\ prev.status = ALREADY_OWNED => result.already_owned >= 1
          /\ prev.status \in {FAILED, RATE_LIMITED} => result.failed >= 1

\* the run returned after the second offer was rate-limited: two titles, two
\* counted
C24_Witness ==
    /\ pc = "done"
    /\ prev.index = 2
    /\ prev.status = RATE_LIMITED
    /\ Len(result.games_processed) = 2
    /\ Counted(result) = 2

\* C25: right after the product page is opened, a login redirect gives FAILED;
\* else the code-redemption marker gives FAILED; else already-owned text gives
\* ALREADY_OWNED; in the three cases the invocation returns at once: no
\* button search, no click, no later classification.
C25_OpenPageChecks ==
    cur.open.seen =>
        /\ cur.open.login => cur.open.opened = FAILED
        /\ (~cur.open.login /\ cur.open.code) => cur.open.opened = FAILED
        /\ (~cur.open.login /\ ~cur.open.code /\ cur.open.owned) =>
              cur.open.opened = ALREADY_OWNED
        /\ (~cur.open.login /\ ~cur.open.code /\ ~cur.open.owned) =>
              cur.open.opened = "continue"
        /\ cur.open.opened # "continue" =>
              /\ cur.smResult = cur.open.opened
              /\ cur.status = cur.open.opened
              /\ ~cur.clicked
              /\ cur.check = "none"
              /\ pc \notin BrowserPcs

\* a page with both the code-redemption marker and already-owned text: FAILED
C25_Witness ==
    /\ pc = "outcome"
    /\ cur.open.seen
    /\ ~cur.open.login
    /\ cur.open.code
    /\ cur.open.owned
    /\ cur.smResult = FAILED
    /\ ~cur.crashed

\* the selectors whose first element is visible in a frame
VisibleIn(view) == {i \in 1..MaxSelectors : view[i] = "visible"}

\* the least element of a non-empty set of numbers
Least(S) == CHOOSE i \in S : \A j \in S : i <= j

\* C26: _find_button answers with the lowest-index selector visible on the
\* page itself when there is one; only otherwise with a selector visible in an
\* embedded frame (the first frame that has one, its lowest-index selector);
\* and with None when nothing is visible anywhere.  Without a button the
\* invocation returns FAILED and nothing was clicked.
C26_FindButton ==
    fnOut.fn = "find_button" =>
        LET page == fnIn
            res == fnOut.value
            withButton == {k \in 1..Len(page.frames) :
                               VisibleIn(page.frames[k]) # {}} IN
        /\ VisibleIn(page.main) # {} =>
              res = [frame |-> 0, selector |-> Least(VisibleIn(page.main))]
        /\ (VisibleIn(page.main) = {} /\ withButton # {}) =>
              /\ res.frame = Least(withButton) + 1
              /\ res.selector = Least(VisibleIn(page.frames[Least(withButton)]))
        /\ (VisibleIn(page.main) = {} /\ withButton = {}) => res = NoButton
        /\ (res = NoButton /\ pc # "click_fn") =>
              /\ pc = "outcome"
              /\ cur.smResult = FAILED
              /\ cur.status = FAILED
              /\ ~cur.clicked

\* the page shows no button, an embedded frame shows one for the second
\* selector only: that one is returned and clicked
C26_Witness ==
    /\ fnOut.fn = "find_button"
    /\ VisibleIn(fnIn.main) = {}
    /\ Len(fnIn.frames) = 1
    /\ fnIn.frames[1][1] = "error"
    /\ fnOut.value = [frame |-> 2, selector |-> 2]
    /\ pc = "sm_checkout"
    /\ cur.clicked


\* C27: during checkout polling, in the main loop and in the loop on the
\* direct purchase URL, success text yields CLAIMED only together with a URL
\* signal: the URL differs from the product-page URL kept before the loop, or
\* it holds a success fragment; CLAIMED is never returned on success text
\* while the URL is still the product-page URL
C27_SuccessNeedsUrlSignal ==
    (pc = "polled" /\ fnOut.fn = "poll" /\ fnOut.value = CLAIMED) =>
        (fnIn.url # fnIn.original_url \/ UrlSuccessPoll(fnIn.url))

\* C27 restricted to the main loop, where the code tests the URL
C27_MainLoopOnly ==
    (pc = "polled" /\ fnOut.fn = "poll" /\ fnOut.value = CLAIMED
        /\ fnIn.loop = "main") =>
        (fnIn.url # fnIn.original_url \/ UrlSuccessPoll(fnIn.url))


\* C28: in both checkout polling loops an iteration without a visible checkout
\* control tests the already-owned text before any success signal, so a page
\* with already-owned text yields ALREADY_OWNED there whatever success text or
\* success URL it shows; _check_page_result on the same page answers
\* differently whenever the page has success text or a URL it takes for a
\* success (CLAIMED, or RATE_LIMITED with rate-limit text).  The fragment
\* "purchase/success" without "#/" is a success URL for the polling loop only.
C28_OwnedBeforeSuccessInPolling ==
    /\ (fnOut.fn \in {"poll", "poll_and_classify"} /\ "owned" \in fnIn.text)
          => fnOut.value = ALREADY_OWNED
    /\ (fnOut.fn = "poll_and_classify" /\ "owned" \in fnIn.text
          /\ ("success" \in fnIn.text \/ UrlSuccessFinal(fnIn.url)))
          => /\ fnOut.final \in {CLAIMED, RATE_LIMITED}
             /\ fnOut.final # fnOut.value
    /\ (fnOut.fn = "poll_and_classify" /\ "owned" \in fnIn.text
          /\ "rate" \notin fnIn.text
          /\ ("success" \in fnIn.text \/ UrlSuccessFinal(fnIn.url)))
          => fnOut.final = CLAIMED

C28_Witness ==
    /\ pc = "classified"
    /\ fnIn = [url |-> "receipt", text |-> {"owned", "success"},
               original_url |-> "product", loop |-> "main"]
    /\ fnOut = [fn |-> "poll_and_classify", value |-> ALREADY_OWNED,
                final |-> CLAIMED]


\* `name` is among the calls made on the page
Has(calls, name) == \E i \in 1..Len(calls) : calls[i] = name

\* none of #day_toggle, #month_toggle, #year_toggle was found visible
ControlsNotFound(g) == g.day # "visible" /\ g.month # "visible" /\ g.year # "visible"

\* C29 as stated: with the age gate detected and none of the day, month and
\* year controls found, the storage flag is set and the page reloaded; without
\* an age-gate keyword nothing is clicked, evaluated or reloaded
C29_AsStated ==
    fnOut.fn = "handle_age_gate" =>
        /\ (fnIn.keyword /\ ControlsNotFound(fnIn))
              => (fnOut.value.flag /\ Has(fnOut.value.calls, "reload"))
        /\ ~fnIn.keyword => fnOut.value = NoAgeGate

\* C29: with the age gate detected, the storage-flag script is evaluated
\* exactly when the continue button was not visible or its lookup or click
\* raised, whether or not the day, month and year controls were found; the
\* flag is set and the page reloaded exactly when, in addition, the evaluation
\* did not raise.  With the controls not found and the continue button visible
\* and clicked the function returns without the fallback.  Only visible
\* controls are clicked, in the order day, month, year, before the continue
\* button, and the fallback comes last.  Without an age-gate keyword nothing
\* is clicked, evaluated or reloaded.
C29_AgeGateFallback ==
    fnOut.fn = "handle_age_gate" =>
        LET out == fnOut.value
            g == fnIn IN
        /\ ~g.keyword => out = NoAgeGate
        /\ g.keyword =>
             /\ Has(out.calls, "evaluate") <=> g.cont # "clicked"
             /\ Has(out.calls, "reload") <=> (g.cont # "clicked" /\ g.evaluate = "ok")
             /\ out.flag <=> Has(out.calls, "reload")
             /\ Has(out.calls, "day_toggle") <=> g.day = "visible"
             /\ Has(out.calls, "month_toggle") <=> g.month = "visible"
             /\ Has(out.calls, "year_toggle") <=> g.year = "visible"
             /\ (ControlsNotFound(g) /\ g.cont = "clicked")
                   => out.calls = <<"btn_age_continue">>
             /\ (ControlsNotFound(g) /\ g.cont \in {"hidden", "error"}
                   /\ g.evaluate = "ok")
                   => out.calls = <<"evaluate", "reload">>
             /\ \A i, j \in 1..Len(out.calls) :
                   (out.calls[i] \in {"evaluate", "reload"}
                      /\ out.calls[j] \notin {"evaluate", "reload"}) => j < i

C29_Witness ==
    /\ pc = "age_done"
    /\ fnIn.keyword /\ ControlsNotFound(fnIn) /\ fnIn.cont = "hidden"
    /\ fnOut = [fn |-> "handle_age_gate",
                value |-> [calls |-> <<"evaluate", "reload">>, flag |-> TRUE]]


\* C30 (as stated; the code does not keep it): a poll of the CAPTCHA wait that
\* reads rate-limit text in the page ends the invocation at once with
\* RATE_LIMITED: no further poll, settle wait, checkout click or
\* classification follows it
C30_RateLimitEndsCaptchaWait ==
    [][(pc = "sm_captcha" /\ ~cur.rateSeen /\ cur'.rateSeen) =>
          (pc' \notin InvocationPcs /\ cur'.smResult = RATE_LIMITED)]_vars


\* C31: a CAPTCHA wait that ends unresolved (timeout, rate-limit text, or an
\* exception) ends the invocation with FAILED or RATE_LIMITED, never with
\* CLAIMED or ALREADY_OWNED; at the timeout, with no rate-limit text in the
\* page, the result is FAILED, and RATE_LIMITED is returned only on
\* rate-limit text
C31_UnresolvedCaptchaFails ==
    [][(pc = "sm_captcha" /\ pc' \notin {"sm_captcha", "sm_post_captcha"}) =>
          (/\ pc' = "outcome"
           /\ cur'.smResult \in {FAILED, RATE_LIMITED}
           /\ cur'.status = cur'.smResult
           /\ cur'.queries = 0
           /\ browser' = "closed"
           /\ (sm.retry = MaxCaptchaPolls /\ ~cur'.rateSeen)
                 => cur'.smResult = FAILED
           /\ cur'.smResult = RATE_LIMITED => cur'.rateSeen)]_vars

\* the wait timed out (no poll read rate-limit text, nothing raised) and the
\* invocation returned FAILED
C31_Witness ==
    /\ pc = "outcome"
    /\ cur.clicked /\ cur.check = FAILED
    /\ ~cur.rateSeen /\ ~cur.crashed
    /\ cur.smResult = FAILED /\ cur.status = FAILED
    /\ browser = "closed"


\* C32: _check_page_result is conservative: it answers CLAIMED only for a page
\* whose URL holds a success fragment or whose text holds a success pattern,
\* ALREADY_OWNED only for a page with already-owned text and neither of these
\* success signals, RATE_LIMITED only on rate-limit text, and FAILED for every
\* page without rate-limit, success and already-owned signal
C32_ConservativeClassification ==
    fnOut.fn = "check_page_result" =>
        LET success == UrlSuccessFinal(fnIn.url) \/ "success" \in fnIn.text
            owned == "owned" \in fnIn.text
            rate == "rate" \in fnIn.text IN
        /\ fnOut.value \in {CLAIMED, ALREADY_OWNED, RATE_LIMITED, FAILED}
        /\ fnOut.value = CLAIMED => success
        /\ fnOut.value = ALREADY_OWNED => (owned /\ ~success)
        /\ fnOut.value = RATE_LIMITED => rate
        /\ (~rate /\ ~success /\ ~owned) => fnOut.value = FAILED

\* a page after a login redirect with the code-redemption marker and the weak
\* CAPTCHA keyword in its text: no signal, FAILED
C32_Witness ==
    /\ fnOut.fn = "check_page_result"
    /\ fnIn.url = "login"
    /\ fnIn.text = {"code", "hcaptcha"}
    /\ fnOut.value = FAILED


\* the page with every probe that raised answered "not visible" instead
QuietView(view) == [i \in 1..MaxSelectors |->
                       IF view[i] = "error" THEN "hidden" ELSE view[i]]
Quiet(page) == [main |-> QuietView(page.main),
                frames |-> [k \in 1..Len(page.frames) |-> QuietView(page.frames[k])]]

C34_DebugSinkNeverChangesOutcome ==
    (cur.check \in {CLAIMED, ALREADY_OWNED} /\ cur.smResult # "none")
        => cur.smResult = cur.check


\* C35: a failing ownership-listing request never raises: get_owned_games
\* answers the empty owned sets, so a verification whose requests all fail
\* issues its ten queries, none of them lists the namespace, and claim_game
\* returns FAILED for the CLAIMED of the browser flow, fulfilled order or not
C35_FailingListingDegradesToFailed ==
    /\ GetOwnedGames(entitlements, FALSE) = NoOwned
    /\ pc \in {"verify", "outcome"}
    /\ ~cur.raised /\ ~cur.listed
    /\ cur.smResult = CLAIMED
    /\ cur.queries <= VerifyAttempts
    /\ pc = "verify" => (cur.status = "none" /\ cur.queries < VerifyAttempts)
    /\ pc = "outcome" => (cur.status = FAILED /\ cur.queries = VerifyAttempts)

\* the order was fulfilled, every one of the ten requests failed, FAILED
C35_Witness ==
    /\ pc = "outcome"
    /\ GrantOf(cur.game) \in entitlements
    /\ cur.smResult = CLAIMED
    /\ cur.queries = VerifyAttempts
    /\ cur.status = FAILED


\* the place of a step in the order of the code
StepPos(step) == CHOOSE i \in 1..Len(AuthSteps) : AuthSteps[i] = step

\* whether a step of authenticate, once entered, makes it return True
StepSucceeds(step, file0, n, env) ==
    CASE step = "load" -> Load(file0).present /\ IsValid(Load(file0), n)
      [] step = "verify_token" -> env.verify
      [] step = "refresh_token" -> env.refresh.ok
      [] step = "refresh_from_chrome" ->
            env.chrome.present /\ env.save = "ok" /\ IsValid(env.chrome, n)
      [] step = "from_eg1_token" -> IsValid(env.fallback, n)
      [] step = "verify_fallback" -> env.fbVerify
      [] step = "device_auth" -> env.device.ok
      [] step = "interactive_login" -> env.interactive.present

\* the methods the docstring of authenticate lists
DocumentedSteps == {"load", "verify_token", "refresh_token", "from_eg1_token",
                    "verify_fallback", "device_auth"}

C37_AuthenticatedSessionUsable ==
    (fnOut.fn = "authenticate" /\ fnOut.value.ok) =>
        /\ session.present
        /\ session.access_token # ""
        /\ IsValid(session, now)


\* C38: when the refresh attempted after a FAILED offer gives no token, save
\* is not called, the session in memory is still the one the offer was
\* attempted with, and the run goes on to the next offer, which is attempted
\* with that old session
C38_FailedRefreshChangesNothing ==
    prev.refreshed = "failed" =>
        /\ prev.status = FAILED
        /\ prev.savesAfter = prev.savesBefore
        /\ prev.token = "" /\ prev.savedToken = ""
        /\ CurFinished =>
              /\ saveCount = cur.savesAtStart
              /\ saveCount = prev.savesBefore
              /\ session.access_token = cur.token
              /\ prev.index < Len(claimable) => (pc = "loop" /\ idx = prev.index + 1)
        /\ (cur.index = prev.index + 1 /\ pc \in ClaimGamePcs) =>
              /\ cur.token = session.access_token
              /\ cur.savesAtStart = prev.savesBefore
              /\ saveCount = prev.savesBefore

\* the refresh after the failed first offer gave no token and the second
\* offer is being attempted with the old session, nothing saved
C38_Witness ==
    /\ pc = "sm_open"
    /\ prev.index = 1 /\ prev.status = FAILED /\ prev.refreshed = "failed"
    /\ cur.index = 2
    /\ cur.token = session.access_token
    /\ session.present /\ CanRefresh(session, now)
    /\ saveCount = 0


\* C39 as stated: once the shutdown flag is set no claim cycle is started,
\* the initial one included
C39_AsStated ==
    fnOut.fn = "run_scheduled" =>
        (~fnOut.firstWithFlagSet /\ ~fnOut.laterWithFlagSet)

\* what holds of run_scheduled in every state
SchedulerSafe ==
    /\ pc \in SchedPcs
    /\ ~fnOut.laterWithFlagSet
    /\ fnOut.firstWithFlagSet => ~running
    /\ fnOut.cycles = fnOut.completed + fnOut.raised
                         + (IF pc = "sch_cycle" THEN 1 ELSE 0)
    /\ (fnOut.stoppedDuring > 0 /\ pc # "sch_cycle")
          => (fnOut.afterStop \in {"completed", "raised"}
              /\ fnOut.cycles = fnOut.stoppedDuring)
    /\ (fnOut.stoppedDuring > 0 /\ pc = "sch_cycle")
          => (fnOut.afterStop = "none" /\ fnOut.cycles = fnOut.stoppedDuring)
    /\ pc = "sch_returned" => ~running
    /\ (running /\ fnOut.raised > 0) => pc # "sch_returned"

\* C39: in scheduled mode no cycle is started after the wait once the
\* shutdown flag is set (the flag is tested after _wait_until and before
\* _execute_claim); only the initial cycle, which run_scheduled starts without
\* testing the flag, can start with the flag set.  A cycle in progress when
\* the flag is set runs to its end, an exception raised by a cycle is caught
\* and does not end the loop, which only the flag ends, and once the flag is
\* set run_scheduled eventually returns.
C39_SchedulerShutdown ==
    /\ []SchedulerSafe
    /\ (~running) ~> (pc = "sch_returned")

\* the initial cycle raised, the loop went on, the flag was set while the
\* second cycle was in progress, that cycle ran to its end, and run_scheduled
\* returned
C39_Witness ==
    /\ pc = "sch_returned"
    /\ ~running
    /\ fnOut.cycles = 2 /\ fnOut.raised = 1 /\ fnOut.completed = 1
    /\ fnOut.stoppedDuring = 2 /\ fnOut.afterStop = "completed"
    /\ ~fnOut.firstWithFlagSet


\* an offer with discountPercentage 0 whose window holds the moment n
FreeNow(offer, n) ==
    /\ offer.discount = 0
    /\ offer.startDate.kind \in {"aware", "naive"}
    /\ offer.endDate.kind \in {"aware", "naive"}
    /\ offer.startDate.t <= n /\ n <= offer.endDate.t

\* the elements of the response that carry a free offer active at n
Qualifying(elements, n) ==
    {k \in 1..Len(elements) :
        /\ elements[k].promotions
        /\ \E i \in 1..Len(elements[k].offers) : FreeNow(elements[k].offers[i], n)}

\* C40: every offer _parse_promotions_response returns comes from a
\* promotional offer with discountPercentage 0 and startDate <= now <= endDate;
\* elements without promotions, with only non-zero discounts, or with an
\* inactive or unparseable window give no offer (a response without a
\* qualifying element gives the empty list); and get_free_games consults the
\* external source exactly when the primary list is empty
C40_DiscoveryFilter ==
    fnOut.fn = "get_free_games" =>
        LET parsed == fnOut.parsed
            elements == fnIn.elements
            q == Qualifying(elements, DiscoveryNow) IN
        /\ \A i \in 1..Len(parsed) : \E k \in q : elements[k].game = parsed[i]
        /\ q = {} => parsed = <<>>
        /\ \A k \in 1..Len(elements) :
              (k \notin q /\ \A j \in q : elements[j].game # elements[k].game)
                 => \A i \in 1..Len(parsed) : parsed[i] # elements[k].game
        /\ fnOut.value.external_called <=> parsed = <<>>
        /\ parsed # <<>> => fnOut.value.games = parsed
        /\ parsed = <<>> => fnOut.value.games = fnIn.external

\* an element with an expired free offer and a paid offer is dropped, the
\* element with the active free offer is listed, the external source is not
\* consulted
C40_Witness ==
    /\ fnOut.fn = "get_free_games"
    /\ fnIn.elements = <<[game |-> G1, promotions |-> TRUE,
                          offers |-> <<FreeExpired, PaidActive>>],
                         [game |-> G2, promotions |-> TRUE,
                          offers |-> <<FreeActive>>]>>
    /\ fnOut.parsed = <<G2>>
    /\ ~fnOut.value.external_called


=============================================================================
